---- MODULE Spec2Model ----
(***************************************************************************)
(* The reload / selection-writeback protocol of coda.application           *)
(* (Application.reload, push_df_to_cds, the sink selection handlers, the   *)
(* data-provider change notification) together with the data providers of  *)
(* cora.data_provider: the application runs with a RandomDataProvider or   *)
(* with a FilesystemDataProvider that has one vertex csv and one edge csv  *)
(* registered; FilesystemDataProvider and its subclass AmiraDataProvider   *)
(* with files added and removed are modelled on their own.                 *)
(*                                                                         *)
(* A table (pandas DataFrame) is a record [id, cols]: id is the identity   *)
(* of the DataFrame object and cols the set of derived columns the         *)
(* application and its views have written into it.  A sink (bokeh          *)
(* ColumnDataSource) holds a copy of such a record.                        *)
(* One Python statement block of Application.reload is one step of the     *)
(* state machine; pc is the position of the running reload() execution.    *)
(***************************************************************************)
EXTENDS Integers, Sequences, FiniteSets, TLC

\* ------------------------------------------------------------------ bounds
\* Largest row index a selection holds (two digits, as a multiline key).
MaxIndex == 10
\* Largest number of scheduled next-tick callbacks waiting in the event loop.
MaxTicks == 1
\* Largest number of events followed after a reload() that raised and left
\* is_reloading set.
MaxEventsAfterRaise == 1
\* Largest number of rows of a table given to a FactorMap.
MaxRows == 3
\* Largest value of a label column (the values are 0 .. MaxValue).
MaxValue == 2
\* Largest length of a FactorMap palette.
MaxPalette == 2
\* Largest number of bins of a histogram.
MaxBins == 2
\* Largest number of rows of a table whose rows are aggregated.
MaxAggRows == 2
\* Largest number of rows of the vertex table of a graph.
MaxVertices == 3
\* Largest number of rows of the edge table of a graph.
MaxEdges == 1
\* Largest number of rows of a table given to a dimensionality reduction.
MaxReducerRows == 2
\* Largest number of events a PCA or UMAP view handles.
MaxEvents == 3
\* Largest number of events a histogram or SPLOM view handles.
MaxHistEvents == 2
\* Largest number of columns of an edge table whose source and target
\* columns are detected.
MaxEdgeColumns == 4
\* Largest number of HistogramPlot objects a histogram view creates.
MaxPlots == 3

VARIABLES
    provider,           \* kind of the data provider the application owns
    vfile, efile,       \* FileHandle of the vertex csv / the edge csv
    pdf, pdf_edges,     \* DataProvider.df / DataProvider.df_edges
    presult, emitted,   \* outcome of the DataProvider.reload() call of the
                        \* current/last event and the number of change
                        \* notifications it emitted
    ticks,              \* callbacks scheduled with doc.add_next_tick_callback
    is_reloading, automatic_reload, button_disabled,
    df, df_edges,       \* Application.df / Application.df_edges
    cds, cds_edges,     \* data of Application.cds / Application.cds_edges
    vsel, esel,         \* cds.selected.indices / cds_edges.selected.indices
    emsel,              \* keys of cds_edges.selected.multiline_indices
    fmap_color, fmap_marker, fmap_color_edges,
    panel_left, panel_right,
    pc,                 \* position of the running reload() execution
    stack,              \* suspended reload() executions (outer frames)
    outcome,            \* how the last top-level reload() call ended
    steps,              \* statement blocks run by the current/last reload()
    wlog,               \* provider writeback calls of the current/last event
    nested,             \* last callback that ran inside the running reload()
    replaced,           \* bulk replaces of <<vertex sink, edge sink>> in the
                        \* current/last reload()
    pre,                \* application state when the running reload() began
    events_after_raise, \* events handled since a reload() raised
    fm,                 \* a FactorMap object (coda.utils.FactorMap)
    fdf,                \* the DataFrame the FactorMap reads and writes
    pin,                \* the inputs of a computation studied on its own:
                        \* a table, with a selection or an edge table
    pout                \* what the computation made of pin

provvars == <<provider, vfile, efile, pdf, pdf_edges>>
provlog == <<presult, emitted>>
runlog == <<provlog, events_after_raise>>
tablevars == <<df, df_edges, fmap_color, fmap_marker, fmap_color_edges>>
sinkvars == <<cds, cds_edges>>
selvars == <<vsel, esel, emsel>>
appvars == <<is_reloading, automatic_reload, button_disabled, tablevars,
             sinkvars, selvars, panel_left, panel_right>>
ghostvars == <<outcome, steps, wlog, nested, replaced, pre>>
\* The application with its provider, and the objects studied on their own.
appstate == <<provvars, runlog, ticks, appvars, pc, stack, ghostvars>>
fmvars == <<fm, fdf>>
iovars == <<pin, pout>>
purevars == <<fmvars, iovars>>
vars == <<appstate, purevars>>

\* ------------------------------------------------------------- data model
\* "filesystem" is a FilesystemDataProvider as coda/__main__.py sets it up,
\* here with one vertex csv and one edge csv added and both selection paths
\* set (--vertex-selection, --edge-selection) before the application is
\* constructed.
Providers == {"filesystem", "random"}
\* The view of Application.create_view that is modelled: the Map view, whose
\* reload_df adds columns to the vertex table and asks for a push.
Views == {"Map"}
NoView == "None"

\* pd.DataFrame(): the empty table both providers and the application start with.
EmptyTable == [id |-> 0, cols |-> {}]
NewTable(i) == [id |-> i, cols |-> {}]

\* FactorMap state before the first update_df (factors = [], glyph_column = []).
NoFactorMap == [computed |-> FALSE, tbl |-> 0]
NoSnapshot == <<>>

Indices == 0 .. MaxIndex
\* The selections a user makes in a sink: nothing, or every index.
Selections == {{}, Indices}

\* A new DataFrame object: an identity no live reference holds.
FreshId(used) == CHOOSE i \in 0 .. Cardinality(used) : i \notin used

\* FileHandle.data: None, or the DataFrame pd.read_csv returned.
NoData == "None"
HasData == "DataFrame"
\* add_vertex_csv / add_edge_csv: a registered file starts dirty and unread.
NewHandle == [exists |-> TRUE, dirty |-> TRUE, data |-> NoData]
\* RandomDataProvider registers no file.
NoHandle == [exists |-> FALSE, dirty |-> FALSE, data |-> NoData]
IsFilesystem == provider = "filesystem"

\* Entry of the writeback log: one call of a DataProvider.write_* hook, with
\* the value of Application.is_reloading at the time of the call.
WriteSel(op, s) == [op |-> op, sel |-> s, glyph |-> NoFactorMap, rl |-> is_reloading]
WriteMap(op, g, r) == [op |-> op, sel |-> {}, glyph |-> g, rl |-> r]
Calls(op) == SelectSeq(wlog, LAMBDA e : e.op = op)

\* The part of the application state a reload may replace.
Snapshot == [df |-> df, df_edges |-> df_edges, fmap_color |-> fmap_color,
             fmap_marker |-> fmap_marker, fmap_color_edges |-> fmap_color_edges,
             cds |-> cds, cds_edges |-> cds_edges, vsel |-> vsel, esel |-> esel]

\* ---------------------------------------------------------- data providers
\* Variant: a change handler that enables the reload button on the notifying
\* thread instead of scheduling a callback.
on_data_provider_change_direct ==
    /\ ticks' = ticks
    /\ button_disabled' = FALSE
    /\ UNCHANGED <<is_reloading, automatic_reload, tablevars, sinkvars,
                   selvars, panel_left, panel_right>>

\* DataProvider.notify_change -> on_change.send -> the connected
\* Application.on_data_provider_change: schedules _on_data_provider_change on
\* the document's event loop and touches nothing else.
on_data_provider_change ==
    /\ ticks' = ticks + 1
    /\ UNCHANGED appvars

\* No notification is sent.
NoNotify ==
    /\ ticks' = ticks
    /\ UNCHANGED appvars

\* FilesystemDataProvider.reload_vertex / reload_edge for the one registered
\* handle h, when pd.read_csv returns: the handle after the loop over the
\* handles.
ReloadHandle(h) ==
    IF ~h.exists THEN [h EXCEPT !.data = NoData, !.dirty = TRUE]
    ELSE IF h.dirty THEN [h EXCEPT !.data = HasData, !.dirty = FALSE]
    ELSE h

\* pd.read_csv is reached for handle h.
ReadsFile(h) == h.exists /\ h.dirty

\* "if dfs: self.df = pd.concat(dfs)": a new DataFrame object when at least
\* one handle holds data, the old object otherwise.
MergeHandle(h, old, i) ==
    IF h.data # NoData THEN [id |-> i] ELSE old

\* The identities held by live references to vertex / edge tables.
UsedV == {pdf.id, df.id, cds.id, fmap_color.tbl, fmap_marker.tbl}
UsedE == {pdf_edges.id, df_edges.id, cds_edges.id, fmap_color_edges.tbl}

\* FilesystemDataProvider.reload: reload_vertex(), then reload_edge();
\* pd.read_csv may raise in either.
FilesystemReload ==
    /\ IsFilesystem
    /\ \/ \* both succeed
          LET v == ReloadHandle(vfile)
              e == ReloadHandle(efile)
          IN   /\ vfile' = v
               /\ efile' = e
               /\ pdf' = MergeHandle(v, pdf, FreshId(UsedV))
               /\ pdf_edges' = MergeHandle(e, pdf_edges, FreshId(UsedE))
               /\ presult' = "ok"
               /\ emitted' = 0
               /\ NoNotify
       \/ \* pd.read_csv raises in reload_vertex
          /\ ReadsFile(vfile)
          /\ presult' = "failed"
          /\ emitted' = 0
          /\ NoNotify
          /\ UNCHANGED <<vfile, efile, pdf, pdf_edges>>
       \/ \* reload_vertex succeeds, pd.read_csv raises in reload_edge
          /\ ReadsFile(efile)
          /\ LET v == ReloadHandle(vfile)
             IN /\ vfile' = v
                /\ pdf' = MergeHandle(v, pdf, FreshId(UsedV))
          /\ presult' = "failed"
          /\ emitted' = 0
          /\ NoNotify
          /\ UNCHANGED <<efile, pdf_edges>>

\* RandomDataProvider.reload: a new table of random data, a spanning tree as
\* edge table, then notify_change(); an exception raised while the tables
\* are generated leaves the provider as it was.
RandomReload ==
    /\ provider = "random"
    /\ UNCHANGED <<vfile, efile>>
    /\ \/ /\ pdf' = [id |-> FreshId(UsedV)]
          /\ pdf_edges' = [id |-> FreshId(UsedE)]
          /\ presult' = "ok"
          /\ emitted' = 1
          /\ on_data_provider_change
       \/ /\ presult' = "failed"
          /\ emitted' = 0
          /\ NoNotify
          /\ UNCHANGED <<pdf, pdf_edges>>

\* data_provider.reload(), dispatched on the provider's class.
DataProviderReload == FilesystemReload \/ RandomReload

\* ------------------------------------------------------------- application
\* "self.df = self.data_provider.df": the application refers to the
\* provider's DataFrame object; a new object carries no derived column yet.
TakeTable(cur, p) ==
    IF p.id = cur.id THEN cur ELSE NewTable(p.id)

AddCol(t, c) == [t EXCEPT !.cols = @ \cup {c}]

\* FactorMap.update_df with no column selected: the factor/id/glyph state is a
\* function of the table it was computed on.
UpdateDf(t) == [computed |-> TRUE, tbl |-> t.id]

\* Variant: reload() without its re-entrancy guard.
ReloadGuardOff == FALSE

\* Application.reload, first statement: "if self.is_reloading: return None".
ReloadGuard == is_reloading

\* Variant: push_df_to_cds without its guard.
PushGuardOff(force) == FALSE

\* Application.push_df_to_cds, first statement:
\* "if self.is_reloading and not force: return None".
PushGuard(force) == is_reloading /\ ~force

\* Application.push_df_to_cds for one sink: c is the sink's data, t the table,
\* flag the vertex= / edge= argument.
PushDfToCds(c, t, flag, force) ==
    IF PushGuard(force) THEN c
    ELSE IF flag THEN t ELSE c

\* Variant: selection handlers without their guard.
SelectionGuardOff == FALSE

\* The guard of on_cds_selection_change, on_cds_edges_indices_change and
\* on_cds_edges_multiline_indices_change: "if self.is_reloading: return None".
SelectionGuard == is_reloading

\* ViewBase.reload_df of the view kinds: the Map view writes its mercator
\* columns into the vertex table, the Spreadsheet view writes nothing.
ViewReloadDf(view, t) ==
    IF view = "Map" THEN AddCol(t, "cora:map") ELSE t

\* The view calls app.push_df_to_cds(vertex=True) at the end of its reload_df.
ViewPushes(view) == view = "Map"

\* reload_df of the left, then of the right panel: the vertex table afterwards.
PanelsReloadDf(t) == ViewReloadDf(panel_right, ViewReloadDf(panel_left, t))

\* A new top-level event starts: the logs of the previous one are dropped; w
\* are the writeback calls the event's handler makes.
\* An event the event loop handles although an earlier reload() raised and
\* never cleared is_reloading.
AfterRaise == pc = "idle" /\ is_reloading

EventCount ==
    /\ AfterRaise => events_after_raise < MaxEventsAfterRaise
    /\ events_after_raise' = IF AfterRaise THEN events_after_raise + 1
                             ELSE events_after_raise

EventReset(o, w) ==
    /\ EventCount
    /\ outcome' = o
    /\ steps' = <<>>
    /\ wlog' = w
    /\ nested' = "none"
    /\ replaced' = <<0, 0>>
    /\ pre' = NoSnapshot
    /\ presult' = "none"
    /\ emitted' = 0

\* The body of Application.reload up to "self.is_reloading = True", called
\* with t callbacks left in the event loop.  Behind the guard nothing happens.
reload_enter(t) ==
    IF ReloadGuard
    THEN /\ UNCHANGED <<is_reloading, pc, stack>>
         /\ IF pc = "idle"
            THEN EventReset("guarded", <<>>)
            ELSE /\ nested' = "reload"
                 /\ UNCHANGED <<outcome, steps, wlog, replaced, pre,
                                runlog>>
    ELSE /\ provider = "random" => t < MaxTicks
         /\ is_reloading' = TRUE
         /\ stack' = IF pc = "idle" THEN stack ELSE Append(stack, pc)
         /\ pc' = "provider"
         /\ outcome' = "running"
         /\ steps' = <<>>
         /\ wlog' = <<>>
         /\ nested' = "none"
         /\ replaced' = <<0, 0>>
         /\ pre' = Snapshot
         /\ presult' = "none"
         /\ emitted' = 0
         /\ UNCHANGED events_after_raise

\* An exception leaves reload(): it propagates through every frame to the
\* caller; no statement of reload() runs after it.
reload_raise ==
    /\ pc' = "idle"
    /\ stack' = <<>>
    /\ outcome' = "raised"

\* reload() returns: the caller (an outer reload(), or the event loop) goes on.
reload_return ==
    /\ pc' = IF stack = <<>> THEN "idle" ELSE stack[Len(stack)]
    /\ stack' = IF stack = <<>> THEN stack ELSE SubSeq(stack, 1, Len(stack) - 1)
    /\ outcome' = IF stack = <<>> THEN "done" ELSE outcome

\* Variant: the forced push runs before the views' reload_df.
NextPcPushFirst(p) ==
    CASE p = "provider" -> "replace"
      [] p = "replace" -> "fmap_color"
      [] p = "fmap_color" -> "fmap_marker"
      [] p = "fmap_marker" -> "fmap_edges"
      [] p = "fmap_edges" -> "push"
      [] p = "push" -> "reload_df"
      [] p = "reload_df" -> "reload_cds"
      [] p = "reload_cds" -> "layout"
      [] p = "layout" -> "clear"
      [] p = "clear" -> "writeback"

\* The statement blocks of Application.reload in program order: the block
\* that runs after block p.
NextPc(p) ==
    CASE p = "provider" -> "replace"
      [] p = "replace" -> "fmap_color"
      [] p = "fmap_color" -> "fmap_marker"
      [] p = "fmap_marker" -> "fmap_edges"
      [] p = "fmap_edges" -> "reload_df"
      [] p = "reload_df" -> "push"
      [] p = "push" -> "reload_cds"
      [] p = "reload_cds" -> "layout"
      [] p = "layout" -> "clear"
      [] p = "clear" -> "writeback"

\* Block `from` of reload() runs; name is its entry in the step log.
Step(from, name) ==
    /\ pc = from
    /\ pc' = NextPc(from)
    /\ steps' = Append(steps, name)
    /\ UNCHANGED <<stack, outcome>>

\* --------------------------------------------------- Application.reload
\* The positions of reload() at which a callback can run synchronously inside
\* it: the view hooks set widget and sink properties, whose change handlers
\* run at once.
NestedPoints == {"reload_df", "reload_cds"}

\* The calls of reload() that can raise after the provider's reload: the
\* three FactorMap recomputes (FactorMap.update_df), the view hooks, the
\* layout update.
RaisePoints == {"fmap_color", "fmap_marker", "fmap_edges", "reload_df",
                "reload_cds", "layout"}

\* Variant: reload() swallows the provider's exception and goes on.
ReloadProviderSwallow ==
    /\ pc = "provider"
    /\ UNCHANGED <<provider, events_after_raise>>
    /\ DataProviderReload
    /\ pc' = NextPc("provider")
    /\ steps' = Append(steps, "provider_reload")
    /\ pre' = IF presult' = "ok" THEN NoSnapshot ELSE pre
    /\ UNCHANGED <<stack, outcome, wlog, nested, replaced>>

\* "self.data_provider.reload()"
ReloadProvider ==
    /\ pc = "provider"
    /\ UNCHANGED <<provider, events_after_raise>>
    /\ DataProviderReload
    /\ IF presult' = "ok"
       THEN /\ pc' = NextPc("provider")
            /\ steps' = Append(steps, "provider_reload")
            /\ pre' = NoSnapshot
            /\ UNCHANGED <<stack, outcome, wlog, nested, replaced>>
       ELSE /\ reload_raise
            /\ UNCHANGED <<steps, wlog, nested, replaced, pre>>

\* "self.df = self.data_provider.df; self.df_edges = ...", the glyph menus.
ReloadReplace ==
    /\ Step("replace", "replace_tables")
    /\ df' = TakeTable(df, pdf)
    /\ df_edges' = TakeTable(df_edges, pdf_edges)
    /\ UNCHANGED <<provvars, runlog, ticks, is_reloading, automatic_reload,
                   button_disabled, fmap_color, fmap_marker, fmap_color_edges,
                   sinkvars, selvars, panel_left, panel_right,
                   wlog, nested, replaced, pre>>

\* Application.update_colormap
update_colormap ==
    /\ Step("fmap_color", "update_colormap")
    /\ fmap_color' = UpdateDf(df)
    /\ df' = AddCol(df, "coda:color")
    /\ wlog' = Append(wlog, WriteMap("write_vertex_colormap", UpdateDf(df),
                                     is_reloading))
    /\ UNCHANGED <<provvars, runlog, ticks, is_reloading, automatic_reload,
                   button_disabled, df_edges, fmap_marker, fmap_color_edges,
                   sinkvars, selvars, panel_left, panel_right,
                   nested, replaced, pre>>

\* Application.update_markermap
update_markermap ==
    /\ Step("fmap_marker", "update_markermap")
    /\ fmap_marker' = UpdateDf(df)
    /\ df' = AddCol(df, "coda:marker")
    /\ UNCHANGED <<provvars, runlog, ticks, is_reloading, automatic_reload,
                   button_disabled, df_edges, fmap_color, fmap_color_edges,
                   sinkvars, selvars, panel_left, panel_right,
                   wlog, nested, replaced, pre>>

\* Application.update_edge_colormap
update_edge_colormap ==
    /\ Step("fmap_edges", "update_edge_colormap")
    /\ fmap_color_edges' = UpdateDf(df_edges)
    /\ df_edges' = AddCol(df_edges, "coda:edge:color")
    /\ wlog' = Append(wlog, WriteMap("write_edge_colormap", UpdateDf(df_edges),
                                     is_reloading))
    /\ UNCHANGED <<provvars, runlog, ticks, is_reloading, automatic_reload,
                   button_disabled, df, fmap_color, fmap_marker,
                   sinkvars, selvars, panel_left, panel_right,
                   nested, replaced, pre>>

\* One bulk replace is counted when a push passes the guard.
PushCount(flag, force) == IF PushGuard(force) \/ ~flag THEN 0 ELSE 1

\* "self.panel_left.reload_df(); self.panel_right.reload_df()": each view
\* writes its columns into the table and, if it does so, asks for a push
\* without force.
ReloadViewsDf ==
    /\ Step("reload_df", "reload_df")
    /\ LET d1 == ViewReloadDf(panel_left, df)
           c1 == PushDfToCds(cds, d1, ViewPushes(panel_left), FALSE)
           d2 == ViewReloadDf(panel_right, d1)
           c2 == PushDfToCds(c1, d2, ViewPushes(panel_right), FALSE)
       IN /\ df' = d2
          /\ cds' = c2
          /\ replaced' = <<replaced[1]
                             + PushCount(ViewPushes(panel_left), FALSE)
                             + PushCount(ViewPushes(panel_right), FALSE),
                           replaced[2]>>
    /\ UNCHANGED <<provvars, runlog, ticks, is_reloading, automatic_reload,
                   button_disabled, df_edges, fmap_color, fmap_marker,
                   fmap_color_edges, cds_edges, selvars, panel_left,
                   panel_right, wlog, nested, pre>>

\* "self.push_df_to_cds(vertex=True, edge=True, force=True)"
ReloadPush ==
    /\ Step("push", "push_df_to_cds")
    /\ cds' = PushDfToCds(cds, df, TRUE, TRUE)
    /\ cds_edges' = PushDfToCds(cds_edges, df_edges, TRUE, TRUE)
    /\ replaced' = <<replaced[1] + PushCount(TRUE, TRUE),
                     replaced[2] + PushCount(TRUE, TRUE)>>
    /\ UNCHANGED <<provvars, runlog, ticks, is_reloading, automatic_reload,
                   button_disabled, tablevars, selvars, panel_left,
                   panel_right, wlog, nested, pre>>

\* "self.panel_left.reload_cds(); self.panel_right.reload_cds()": the views
\* build their plots; no table and no sink is written.
ReloadViewsCds ==
    /\ Step("reload_cds", "reload_cds")
    /\ UNCHANGED <<provvars, runlog, ticks, appvars, wlog, nested, replaced, pre>>

\* "self.update_layout_sidebar(); self.update_layout()"
ReloadLayout ==
    /\ Step("layout", "update_layout")
    /\ UNCHANGED <<provvars, runlog, ticks, appvars, wlog, nested, replaced, pre>>

\* "self.ui_button_reload.disabled = True; self.is_reloading = False"
ReloadClear ==
    /\ Step("clear", "clear_is_reloading")
    /\ button_disabled' = TRUE
    /\ is_reloading' = FALSE
    /\ UNCHANGED <<provvars, runlog, ticks, automatic_reload, tablevars, sinkvars,
                   selvars, panel_left, panel_right, wlog, nested, replaced,
                   pre>>

\* The four writeback calls that end reload(), in program order.
Writebacks ==
    <<WriteSel("write_vertex_selection", vsel),
      WriteSel("write_edge_selection", esel),
      WriteMap("write_vertex_colormap", fmap_color, is_reloading),
      WriteMap("write_edge_colormap", fmap_color_edges, is_reloading)>>

\* The writeback calls that can raise: with path_vertex_selection and
\* path_edge_selection set, FilesystemDataProvider's write_vertex_selection
\* and write_edge_selection index the selection mask with the selection
\* (IndexError when an index is not a row of the provider's table) and open
\* the output file; the colormap hooks it inherits and all hooks of
\* RandomDataProvider do not raise.
RaisingWritebacks == IF IsFilesystem THEN {1, 2} ELSE {}

\* The four writebacks that end reload(), then "return None"; when the k-th
\* call raises, the calls after it are not made and reload() raises.
ReloadWriteback ==
    /\ pc = "writeback"
    /\ steps' = Append(steps, "writebacks")
    /\ \/ /\ wlog' = wlog \o Writebacks
          /\ reload_return
       \/ \E k \in RaisingWritebacks :
             /\ wlog' = wlog \o SubSeq(Writebacks, 1, k)
             /\ reload_raise
    /\ UNCHANGED <<provvars, runlog, ticks, appvars, nested, replaced, pre>>

\* A FactorMap recompute, a view hook or the layout update raises: reload()
\* has no handler and no finally clause, the exception leaves it at once.
\* When the hook of the right panel raises in "self.panel_left.reload_df();
\* self.panel_right.reload_df()", the left view has written its columns into
\* the table; its push without force returned at the guard.
ReloadRaise ==
    /\ pc \in RaisePoints
    /\ reload_raise
    /\ \/ UNCHANGED df
       \/ /\ pc = "reload_df"
          /\ panel_right # NoView
          /\ df' = ViewReloadDf(panel_left, df)
    /\ UNCHANGED <<provvars, runlog, ticks, is_reloading, automatic_reload,
                   button_disabled, df_edges, fmap_color, fmap_marker,
                   fmap_color_edges, sinkvars, selvars, panel_left,
                   panel_right, steps, wlog, nested, replaced, pre>>

\* ------------------------------------------------------------------ events
\* FactorMap.push_df_to_cds: the glyph and id column of the map are written
\* into the sink's data.
FactorMapPush(c, col) == AddCol(c, col)

\* FactorMap.update_df raises in a glyph handler (np.unique on a label column
\* that holds strings and a missing value): the provider's hook is not
\* called, the map is not pushed, the handler raises; objs are the map, the
\* table and the sink of the handler, all left as they were.
HandlerRaise(objs) ==
    /\ EventReset("none", <<>>)
    /\ UNCHANGED objs

\* Application.on_ui_select_color_change: update_colormap(), then
\* fmap_color.push_df_to_cds(); the handler has no is_reloading guard.
on_ui_select_color_change ==
    /\ pc = "idle"
    /\ \/ /\ fmap_color' = UpdateDf(df)
          /\ df' = AddCol(df, "coda:color")
          /\ cds' = FactorMapPush(cds, "coda:color")
          /\ EventReset("none", <<WriteMap("write_vertex_colormap",
                                           UpdateDf(df), is_reloading)>>)
       \/ HandlerRaise(<<fmap_color, df, cds>>)
    /\ UNCHANGED <<provvars, ticks, is_reloading, automatic_reload,
                   button_disabled, df_edges, fmap_marker, fmap_color_edges,
                   cds_edges, selvars, panel_left, panel_right, pc, stack>>

\* Application.on_ui_select_marker_change: update_markermap(), then
\* fmap_marker.push_df_to_cds().
on_ui_select_marker_change ==
    /\ pc = "idle"
    /\ \/ /\ fmap_marker' = UpdateDf(df)
          /\ df' = AddCol(df, "coda:marker")
          /\ cds' = FactorMapPush(cds, "coda:marker")
          /\ EventReset("none", <<>>)
       \/ HandlerRaise(<<fmap_marker, df, cds>>)
    /\ UNCHANGED <<provvars, ticks, is_reloading, automatic_reload,
                   button_disabled, df_edges, fmap_color, fmap_color_edges,
                   cds_edges, selvars, panel_left, panel_right, pc, stack>>

\* Application.on_ui_select_color_edges_change: update_edge_colormap(), then
\* fmap_color_edges.push_df_to_cds().
on_ui_select_color_edges_change ==
    /\ pc = "idle"
    /\ \/ /\ fmap_color_edges' = UpdateDf(df_edges)
          /\ df_edges' = AddCol(df_edges, "coda:edge:color")
          /\ cds_edges' = FactorMapPush(cds_edges, "coda:edge:color")
          /\ EventReset("none", <<WriteMap("write_edge_colormap",
                                           UpdateDf(df_edges), is_reloading)>>)
       \/ HandlerRaise(<<fmap_color_edges, df_edges, cds_edges>>)
    /\ UNCHANGED <<provvars, ticks, is_reloading, automatic_reload,
                   button_disabled, df, fmap_color, fmap_marker, cds,
                   selvars, panel_left, panel_right, pc, stack>>

\* Application.on_ui_button_reload_click (and the first reload() of coda_doc).
on_ui_button_reload_click ==
    /\ pc = "idle"
    /\ reload_enter(ticks)
    /\ UNCHANGED <<provvars, ticks, automatic_reload, button_disabled,
                   tablevars, sinkvars, selvars, panel_left, panel_right>>

\* The embedding script sets the public attribute Application.automatic_reload
\* (False after __init__) between two events.
set_automatic_reload ==
    /\ pc = "idle"
    /\ automatic_reload' = ~automatic_reload
    /\ EventReset("none", <<>>)
    /\ UNCHANGED <<provvars, ticks, is_reloading, button_disabled, tablevars,
                   sinkvars, selvars, panel_left, panel_right, pc, stack>>

\* Application._on_data_provider_change, run by the event loop for one
\* scheduled callback.
NextTick ==
    /\ pc = "idle"
    /\ ticks > 0
    /\ ticks' = ticks - 1
    /\ button_disabled' = FALSE
    /\ IF automatic_reload
       THEN reload_enter(ticks - 1)
       ELSE /\ EventReset("none", <<>>)
            /\ UNCHANGED <<is_reloading, pc, stack>>
    /\ UNCHANGED <<provvars, automatic_reload, tablevars, sinkvars, selvars,
                   panel_left, panel_right>>

\* reload() called by a callback that runs inside the running reload().
NestedReload ==
    /\ pc \in NestedPoints
    /\ reload_enter(ticks)
    /\ UNCHANGED <<provvars, ticks, automatic_reload, button_disabled,
                   tablevars, sinkvars, selvars, panel_left, panel_right>>

\* The ghost state of a selection handler that makes the writeback calls w:
\* a handler run by the event loop is an event of its own, one run inside
\* reload() belongs to that reload.
HandlerLog(kind, w) ==
    IF pc = "idle"
    THEN EventReset("none", w)
    ELSE /\ wlog' = wlog \o w
         /\ nested' = kind
         /\ UNCHANGED <<outcome, steps, replaced, pre, runlog>>

HandlerPoint == pc = "idle" \/ pc \in NestedPoints

\* Application.on_cds_selection_change: the vertex sink's selected indices
\* changed to new.
on_cds_selection_change ==
    /\ HandlerPoint
    /\ \E new \in Selections :
         /\ new # vsel
         /\ vsel' = new
         /\ HandlerLog("vsel", IF SelectionGuard THEN <<>>
                               ELSE <<WriteSel("write_vertex_selection", new)>>)
    /\ UNCHANGED <<provvars, ticks, is_reloading, automatic_reload,
                   button_disabled, tablevars, sinkvars, esel, emsel,
                   panel_left, panel_right, pc, stack>>

\* Application.on_cds_edges_indices_change
on_cds_edges_indices_change ==
    /\ HandlerPoint
    /\ \E new \in Selections :
         /\ new # esel
         /\ esel' = new
         /\ HandlerLog("esel", IF SelectionGuard THEN <<>>
                               ELSE <<WriteSel("write_edge_selection", new)>>)
    /\ UNCHANGED <<provvars, ticks, is_reloading, automatic_reload,
                   button_disabled, tablevars, sinkvars, vsel, emsel,
                   panel_left, panel_right, pc, stack>>

\* Variant: only the first digit of a key is read.
IntOfKeyFirstDigit(k) == IF k = <<>> THEN 0 ELSE k[1]

\* A key of multiline_indices is the decimal string of a line index; a string
\* is the sequence of its digits.  int(key):
RECURSIVE IntOfKey(_)
IntOfKey(k) ==
    IF k = <<>> THEN 0
    ELSE 10 * IntOfKey(SubSeq(k, 1, Len(k) - 1)) + k[Len(k)]

\* str(i) for a line index i.
RECURSIVE KeyOf(_)
KeyOf(i) == IF i < 10 THEN <<i>> ELSE Append(KeyOf(i \div 10), i % 10)

MultilineSelections == {{KeyOf(i) : i \in sel} : sel \in Selections}

\* Application.on_cds_edges_multiline_indices_change:
\* "new = [int(key) for key in new]"
on_cds_edges_multiline_indices_change ==
    /\ HandlerPoint
    /\ \E new \in MultilineSelections :
         /\ new # emsel
         /\ emsel' = new
         /\ HandlerLog("emsel",
                       IF SelectionGuard THEN <<>>
                       ELSE <<WriteSel("write_edge_selection",
                                       {IntOfKey(k) : k \in new})>>)
    /\ UNCHANGED <<provvars, ticks, is_reloading, automatic_reload,
                   button_disabled, tablevars, sinkvars, vsel, esel,
                   panel_left, panel_right, pc, stack>>

\* Application.on_ui_select_panel_left_change / _right_change for the panel
\* that holds cur: create_view(new), its reload_df and reload_cds inside
\* view.begin_reload(), then the panel is replaced.
PanelChange(cur, new) ==
    /\ pc = "idle"
    /\ new # cur
    /\ df' = ViewReloadDf(new, df)
    /\ cds' = PushDfToCds(cds, ViewReloadDf(new, df), ViewPushes(new), FALSE)
    /\ EventReset("none", <<>>)
    /\ UNCHANGED <<provvars, ticks, is_reloading, automatic_reload,
                   button_disabled, df_edges, fmap_color, fmap_marker,
                   fmap_color_edges, cds_edges, selvars, pc, stack>>

on_ui_select_panel_left_change ==
    \E new \in Views \cup {NoView} :
        /\ PanelChange(panel_left, new)
        /\ panel_left' = new
        /\ UNCHANGED panel_right

on_ui_select_panel_right_change ==
    \E new \in Views \cup {NoView} :
        /\ PanelChange(panel_right, new)
        /\ panel_right' = new
        /\ UNCHANGED panel_left

\* A watchdog callback of FilesystemDataProvider, on the observer's thread,
\* for the handle h of a registered file; it ends with notify_change().  The
\* observer calls it some time after the change it reports: none of the
\* three asks whether the file exists when it runs.
\* on_modified: "info.dirty = True".
OnModified(h) == [h EXCEPT !.dirty = TRUE]
\* on_deleted: "self.unwatch(info)", which writes info.observed_watch and no
\* field that reload reads.
OnDeleted(h) == h
\* on_created: "self.watch(info)", the same.
OnCreated(h) == h

Watchdog(h) == h' \in {OnModified(h), OnDeleted(h), OnCreated(h)}

\* The file is deleted from the disk, or written there again: what
\* "info.path.exists()" answers from then on.
FileDeleted(h) == [h EXCEPT !.exists = FALSE]
FileCreated(h) == [h EXCEPT !.exists = TRUE]
DiskChange(h) == h' = IF h.exists THEN FileDeleted(h) ELSE FileCreated(h)

\* The observer's thread runs beside the event loop.  Its callbacks write
\* only the handles and the callback queue, which reload() reads in the
\* provider's reload and nowhere later, so one position inside reload()
\* after that stands for all of them.
WatchPoints == {"idle", "provider", "push"}

\* The disk changes beside the event loop too.  The provider's reload is
\* the one reader of "info.path.exists()", so a change after it stands for
\* the same change once reload() has returned.
DiskPoints == {"idle", "provider"}

\* The vertex file or the edge file appears or disappears on the disk; no
\* code of the program runs.
FileChange ==
    /\ IsFilesystem
    /\ pc \in DiskPoints
    /\ \/ DiskChange(vfile) /\ UNCHANGED efile
       \/ DiskChange(efile) /\ UNCHANGED vfile
    /\ EventCount
    /\ UNCHANGED <<provider, pdf, pdf_edges, provlog, ticks, appvars,
                   pc, stack, ghostvars>>

WatchdogEvent ==
    /\ IsFilesystem
    /\ pc \in WatchPoints
    /\ ticks < MaxTicks
    /\ \/ Watchdog(vfile) /\ UNCHANGED efile
       \/ Watchdog(efile) /\ UNCHANGED vfile
    /\ on_data_provider_change
    /\ EventCount
    /\ UNCHANGED <<provider, pdf, pdf_edges, presult, emitted,
                   pc, stack, ghostvars>>

\* ------------------------------------------------------ coda.utils.FactorMap
\* No FactorMap has been constructed; no DataFrame is given.
NoFactorMapObject == [made |-> FALSE]
NoFrame == [made |-> FALSE]

\* The values of the label column, in natural sort order.
Values == 0 .. MaxValue
Glyphs == {"red", "green"}
\* FactorMap.Mode
Modes == {"CYCLE", "REPEAT_LAST"}
Palettes == UNION {[1 .. k -> Glyphs] : k \in 0 .. MaxPalette}
\* The label column of a table of at most MaxRows rows.
Columns == UNION {[1 .. n -> Values] : n \in 0 .. MaxRows}
\* FactorMap.column_name: the select's "None", or the label column's name.
ColumnNames == {"None", "label"}

\* A DataFrame with the label column col; no FactorMap column is written yet.
Frame(col) ==
    [made |-> TRUE, has |-> TRUE, n |-> Len(col), label |-> col,
     written |-> FALSE, glyph |-> <<>>, id |-> <<>>]
\* A DataFrame of n rows without the label column.
FrameWithout(n) ==
    [made |-> TRUE, has |-> FALSE, n |-> n, label |-> <<>>,
     written |-> FALSE, glyph |-> <<>>, id |-> <<>>]
Frames == {Frame(c) : c \in Columns} \cup {FrameWithout(n) : n \in 0 .. MaxRows}

\* FactorMap.__init__: the inputs are stored as given, the outputs are empty.
FactorMapNew(palette, mode, column_name) ==
    [made |-> TRUE, palette |-> palette, mode |-> mode,
     column_name |-> column_name, status |-> "constructed",
     factors |-> <<>>, glyph_map |-> <<>>, id_map |-> <<>>,
     id_column |-> <<>>, glyph_column |-> <<>>]

\* "self.column_name not in self.df", negated.
InColumn(f, d) == d.has /\ f.column_name = "label"

\* np.unique: the distinct values, ascending.
RECURSIVE NpUnique(_)
NpUnique(S) ==
    IF S = {} THEN <<>>
    ELSE LET m == CHOOSE x \in S : \A y \in S : x <= y
         IN <<m>> \o NpUnique(S \ {m})

\* Insert x into the naturally sorted list xs.
RECURSIVE NatInsert(_, _)
NatInsert(x, xs) ==
    IF xs = <<>> THEN <<x>>
    ELSE IF x < Head(xs) THEN <<x>> \o xs
    ELSE <<Head(xs)>> \o NatInsert(x, Tail(xs))

\* natsorted(xs)
RECURSIVE natsorted(_)
natsorted(xs) ==
    IF xs = <<>> THEN <<>> ELSE NatInsert(Head(xs), natsorted(Tail(xs)))

\* Variant: the factors in order of first appearance in the column.
RECURSIVE FactorsByAppearance(_)
FactorsByAppearance(col) ==
    IF col = <<>> THEN <<>>
    ELSE LET rest == FactorsByAppearance(SubSeq(col, 1, Len(col) - 1))
             x == col[Len(col)]
         IN IF \E i \in DOMAIN rest : rest[i] = x THEN rest
            ELSE Append(rest, x)

\* "factors = np.unique(self.df[self.column_name]);
\*  factors = list(natsorted(factors))"
Factors(col) == natsorted(NpUnique({col[i] : i \in DOMAIN col}))

\* The palette iterator zipped with the factors: itertools.cycle(palette) in
\* CYCLE mode, itertools.chain(palette, itertools.repeat(palette[-1]))
\* otherwise.  pos is the iterator's position: IterItem is the item it
\* yields, IterAdvance the position after yielding it.
IterItem(p, mode, pos) ==
    IF pos <= Len(p) THEN p[pos] ELSE p[Len(p)]

\* Variant: an iterator that repeats the last item in both modes.
IterAdvanceRepeat(p, mode, pos) ==
    IF pos < Len(p) THEN pos + 1 ELSE pos

IterAdvance(p, mode, pos) ==
    IF mode = "CYCLE"
    THEN IF pos = Len(p) THEN 1 ELSE pos + 1
    ELSE IF pos <= Len(p) THEN pos + 1 ELSE pos

\* zip(factors, palette): the glyphs paired with the first factors; the zip
\* ends when the factors or the iterator are exhausted.
RECURSIVE Zip(_, _, _, _)
Zip(factors, p, mode, pos) ==
    IF factors = <<>> \/ (mode = "CYCLE" /\ p = <<>>) THEN <<>>
    ELSE <<IterItem(p, mode, pos)>>
            \o Zip(Tail(factors), p, mode, IterAdvance(p, mode, pos))

\* Variant: the default branch computes the columns but does not write them.
UpdateMissingNoWrite(f, d) ==
    IF f.palette = <<>>
    THEN [fm |-> [f EXCEPT !.factors = <<"None">>, !.status = "IndexError"],
          df |-> d]
    ELSE [fm |-> [f EXCEPT !.factors = <<"None">>,
                           !.glyph_map = [x \in {"None"} |-> f.palette[1]],
                           !.glyph_column = [i \in 1 .. d.n |-> f.palette[1]],
                           !.id_map = [x \in {"None"} |-> 0],
                           !.id_column = [i \in 1 .. d.n |-> 0],
                           !.status = "updated"],
          df |-> d]

\* FactorMap.update_df, the branch "if self.column_name not in self.df":
\* the FactorMap and the DataFrame afterwards.  palette[0] raises IndexError
\* on an empty palette, after self.factors was assigned.
UpdateMissing(f, d) ==
    LET f1 == [f EXCEPT !.factors = <<"None">>]
    IN IF f.palette = <<>>
       THEN [fm |-> [f1 EXCEPT !.status = "IndexError"], df |-> d]
       ELSE LET glyph == f.palette[1]
                f2 == [f1 EXCEPT !.glyph_map = [x \in {"None"} |-> glyph],
                                 !.glyph_column = [i \in 1 .. d.n |-> glyph],
                                 !.id_map = [x \in {"None"} |-> 0],
                                 !.id_column = [i \in 1 .. d.n |-> 0],
                                 !.status = "updated"]
            IN [fm |-> f2,
                df |-> [d EXCEPT !.glyph = f2.glyph_column,
                                 !.id = f2.id_column, !.written = TRUE]]

\* FactorMap.update_df, the branch for a column of the DataFrame.
\* palette[-1] raises IndexError on an empty palette in REPEAT_LAST mode;
\* self.glyph_map[factor] raises KeyError for a factor the zip did not reach.
UpdatePresent(f, d) ==
    LET factors == Factors(d.label)
        f1 == [f EXCEPT !.factors = factors]
    IN IF f.mode # "CYCLE" /\ f.palette = <<>>
       THEN [fm |-> [f1 EXCEPT !.status = "IndexError"], df |-> d]
       ELSE
       LET z == Zip(factors, f.palette, f.mode, 1)
           glyph_map == [x \in {factors[i] : i \in 1 .. Len(z)} |->
                            z[CHOOSE i \in 1 .. Len(z) : factors[i] = x]]
           f2 == [f1 EXCEPT !.glyph_map = glyph_map]
       IN IF \E r \in DOMAIN d.label : d.label[r] \notin DOMAIN glyph_map
          THEN [fm |-> [f2 EXCEPT !.status = "KeyError"], df |-> d]
          ELSE
          LET id_map == [x \in {factors[i] : i \in DOMAIN factors} |->
                            (CHOOSE i \in DOMAIN factors : factors[i] = x) - 1]
              f3 == [f2 EXCEPT
                        !.glyph_column = [r \in DOMAIN d.label |->
                                             glyph_map[d.label[r]]],
                        !.id_map = id_map,
                        !.id_column = [r \in DOMAIN d.label |->
                                          id_map[d.label[r]]],
                        !.status = "updated"]
          IN [fm |-> f3,
              df |-> [d EXCEPT !.glyph = f3.glyph_column,
                               !.id = f3.id_column, !.written = TRUE]]

\* FactorMap.update_df
update_df(f, d) ==
    IF InColumn(f, d) THEN UpdatePresent(f, d) ELSE UpdateMissing(f, d)

\* FactorMap(name=..., df=fdf, cds=..., column_name=..., palette=..., mode=...)
FactorMapConstruct ==
    /\ ~fm.made
    /\ \E palette \in Palettes, mode \in Modes, column_name \in ColumnNames :
         fm' = FactorMapNew(palette, mode, column_name)
    /\ UNCHANGED <<fdf, appstate, iovars>>

\* fmap.update_df()
FactorMapUpdateDf ==
    /\ fm.made
    /\ fm' = update_df(fm, fdf).fm
    /\ fdf' = update_df(fm, fdf).df
    /\ UNCHANGED <<appstate, iovars>>

\* ------------------------------------------- aggregations over a selection
NoInput == [made |-> FALSE]
NoOutput == [made |-> FALSE]

\* The factor ids of a FactorMap with at most two factors.
FactorIds == {0, 1}

\* The rows of sequence xs at the indices in S, in table order.
RECURSIVE Take(_, _)
Take(xs, S) ==
    IF xs = <<>> THEN <<>>
    ELSE LET front == Take(SubSeq(xs, 1, Len(xs) - 1), S)
         IN IF Len(xs) \in S THEN Append(front, xs[Len(xs)]) ELSE front

\* "if selection: columns = [column[selection] ...]" (FlowerPlot) and
\* "if selection: df = df.iloc[selection]" (StatisticsView): the rows the
\* aggregation runs over.
Selected(xs, sel) == IF sel # {} THEN Take(xs, sel) ELSE xs

RECURSIVE SumSeq(_)
SumSeq(xs) == IF xs = <<>> THEN 0 ELSE Head(xs) + SumSeq(Tail(xs))
MinSeq(xs) == CHOOSE m \in {xs[i] : i \in DOMAIN xs} :
                 \A i \in DOMAIN xs : m <= xs[i]
MaxSeq(xs) == CHOOSE m \in {xs[i] : i \in DOMAIN xs} :
                 \A i \in DOMAIN xs : m >= xs[i]
\* np.median, doubled: the middle value of the sorted rows, or the sum of the
\* two middle values.
Median2(xs) ==
    LET srt == natsorted(xs)
        n == Len(xs)
    IN IF n % 2 = 1 THEN 2 * srt[(n + 1) \div 2]
       ELSE srt[n \div 2] + srt[n \div 2 + 1]

\* FlowerPlot.update_description_selection for one field; np.max raises
\* ValueError on an empty column.  mean is kept as <<sum, count>>.
FlowerDescription(xs, sel) ==
    LET col == Selected(xs, sel)
    IN IF col = <<>> THEN [raised |-> "ValueError"]
       ELSE [raised |-> "no", max |-> MaxSeq(col), min |-> MinSeq(col),
             mean |-> <<SumSeq(col), Len(col)>>, median2 |-> Median2(col)]

\* StatisticsView.update_statistics for one column: df.describe() and
\* df.nunique() of the rows; the mean, the deviation and the quartiles are
\* functions of the sorted rows.
Statistics(xs, sel) ==
    LET col == Selected(xs, sel)
    IN [count |-> Len(col),
        unique |-> Cardinality({col[i] : i \in DOMAIN col}),
        sorted |-> natsorted(col)]

\* Variant: an empty selection gives a mask of zeros.
SelectionMaskZeros(n, indices) ==
    [i \in 1 .. n |-> IF i \in indices THEN 1 ELSE 0]

\* FilesystemDataProvider.write_vertex_selection / write_edge_selection: the
\* "selected" column written for a table of n rows.
SelectionMask(n, indices) ==
    IF indices # {}
    THEN [i \in 1 .. n |-> IF i \in indices THEN 1 ELSE 0]
    ELSE [i \in 1 .. n |-> 1]

\* np.linspace(xmin, xmax, num=nbins + 1): edge j (from 0) is
\* xmin + j * (xmax - xmin) / nbins; it is <= x iff
EdgeLeq(j, x, xmin, xmax, nbins) ==
    xmin * nbins + j * (xmax - xmin) <= x * nbins

\* np.histogram2d along x: the bin (from 1) of value x is the number of edges
\* <= x (searchsorted, side="right"), one less for a value on the last edge.
XBin(x, xmin, xmax, nbins) ==
    LET c == Cardinality({j \in 0 .. nbins : EdgeLeq(j, x, xmin, xmax, nbins)})
    IN IF x = xmax THEN c - 1 ELSE c

\* Along y the edges are -0.5, 0.5, .., nfactors - 0.5.
YBin(id, nfactors) ==
    LET c == Cardinality({j \in 0 .. nfactors : 2 * j - 1 <= 2 * id})
    IN IF 2 * id = 2 * nfactors - 1 THEN c - 1 ELSE c

\* np.histogram2d(x=xvalues[rows], y=yvalues[rows], bins=(xedges, yedges))
Histogram2d(xs, ids, rows, xmin, xmax, nbins, nfactors) ==
    [b \in 1 .. nbins |->
        [f \in 1 .. nfactors |->
            Cardinality({r \in rows : /\ XBin(xs[r], xmin, xmax, nbins) = b
                                       /\ YBin(ids[r], nfactors) = f})]]

\* Variant: the unselected histogram counts every row.
UnselectedRowsAll(n, sel) == 1 .. n

\* "~selection_mask": the rows of the unselected histogram.
UnselectedRows(n, sel) == (1 .. n) \ sel

\* HistogramPlot.compute_histogram: the selected, the unselected and the
\* overall series; np.min raises ValueError on an empty column.
compute_histogram(xs, ids, nfactors, sel, nbins) ==
    IF xs = <<>> THEN [raised |-> "ValueError"]
    ELSE
    LET xmin == MinSeq(xs)
        xmax == MaxSeq(xs)
        n == Len(xs)
        zeros == [b \in 1 .. nbins |-> [f \in 1 .. nfactors |-> 0]]
        hsel == IF sel # {}
                THEN Histogram2d(xs, ids, sel, xmin, xmax, nbins, nfactors)
                ELSE Histogram2d(xs, ids, 1 .. n, xmin, xmax, nbins, nfactors)
        hunsel == IF sel # {}
                  THEN Histogram2d(xs, ids, UnselectedRows(n, sel), xmin,
                                   xmax, nbins, nfactors)
                  ELSE zeros
    IN [raised |-> "no", selected |-> hsel, unselected |-> hunsel,
        all |-> [b \in 1 .. nbins |->
                    SumSeq(hsel[b]) + SumSeq(hunsel[b])]]

\* All four aggregations of one table under one selection.
Aggregations(i, sel) ==
    [made |-> TRUE,
     hist |-> compute_histogram(i.x, i.ids, i.nfactors, sel, i.nbins),
     flower |-> FlowerDescription(i.x, sel),
     stats |-> Statistics(i.x, sel),
     mask |-> SelectionMask(Len(i.x), sel)]

\* The tables of at most maxrows rows: a scalar column x and the id column
\* of a FactorMap whose factors all occur (or of the default FactorMap, one
\* factor "None").
AggInputs(maxrows) ==
    UNION {{[made |-> TRUE, x |-> x, ids |-> ids, nfactors |-> nf,
             sel |-> sel, nbins |-> nb] :
               ids \in [1 .. Len(x) -> FactorIds],
               nf \in 0 .. Cardinality(FactorIds),
               sel \in SUBSET (1 .. Len(x)),
               nb \in 1 .. MaxBins} :
           x \in {c \in Columns : Len(c) <= maxrows}}

ValidInput(i) ==
    /\ Len(i.ids) = Len(i.x)
    /\ i.sel \subseteq 1 .. Len(i.x)
    /\ \/ i.nfactors = 1 /\ \A r \in DOMAIN i.ids : i.ids[r] = 0
       \/ {i.ids[r] : r \in DOMAIN i.ids} = 0 .. i.nfactors - 1

\* The handlers of a selection change run: HistogramPlot.update,
\* FlowerPlot.update_description_selection, StatisticsView.update_statistics,
\* write_vertex_selection.
AggCompute ==
    /\ pin.made
    /\ ~pout.made
    /\ pout' = Aggregations(pin, pin.sel)
    /\ UNCHANGED <<pin, appstate, fmvars>>

\* ------------------------------------------- GraphView.update_graph_layout
\* GraphView.LAYOUT_ALGORITHMS
LAYOUT_ALGORITHMS ==
    {"dot", "twopi", "circo", "circular", "kamada_kawai", "planar", "random",
     "shell", "spectral", "spiral", "spring"}

\* The positions a layout algorithm gives to a node.
LayoutPoints == {<<0, 0>>, <<1, 1>>}

\* The edge tables of at most MaxEdges rows over n vertex rows: a row holds
\* the row numbers (from 0) of its source and its target vertex.
EdgeTables(n) ==
    UNION {[1 .. k -> (0 .. n - 1) \X (0 .. n - 1)] : k \in 0 .. MaxEdges}

\* nx.from_pandas_edgelist: the nodes of the graph are the end points of the
\* edges; a vertex row without an edge is no node.
GraphNodes(edges) ==
    {edges[i][1] : i \in DOMAIN edges} \cup {edges[i][2] : i \in DOMAIN edges}

\* A vertex table of n rows, an edge table, whether the edge table has the
\* selected source and target columns, and the selected layout algorithm.
GraphInputs ==
    UNION {{[made |-> TRUE, n |-> n, edges |-> e, has_columns |-> h,
             layout |-> a] :
               e \in EdgeTables(n), h \in BOOLEAN, a \in LAYOUT_ALGORITHMS} :
           n \in 0 .. MaxVertices}

\* Variant: only the rows the layout has a position for.
RECURSIVE PositionRowsDropMissing(_, _)
PositionRowsDropMissing(n, positions) ==
    IF n = 0 THEN <<>>
    ELSE LET front == PositionRowsDropMissing(n - 1, positions)
         IN IF n - 1 \in DOMAIN positions
            THEN Append(front, positions[n - 1]) ELSE front

\* "np.array([positions[irow] if irow in positions else [-1.0, 0.0]
\*            for irow, _ in self.app.df.iterrows()])"
PositionRows(n, positions) ==
    [r \in 1 .. n |-> IF r - 1 \in DOMAIN positions
                      THEN positions[r - 1] ELSE <<-1, 0>>]

\* "positions -= np.mean(positions, axis=0); positions /= np.std(...)" for
\* row r of one axis: (x - mean) / std = num / sqrt(var) with the integers
\* num = n * x - sum and var = n * sum of squares - sum^2; var = 0 gives nan.
Normalized(col, r) ==
    LET n == Len(col)
        sum == SumSeq(col)
        squares == SumSeq([i \in DOMAIN col |-> col[i] * col[i]])
    IN [num |-> n * col[r] - sum, var |-> n * squares - sum * sum]

\* GraphView.update_graph_layout with the positions the layout algorithm
\* returned: it returns early without the source or target column; indexing
\* the empty position array raises IndexError.
update_graph_layout(g, positions) ==
    IF ~g.has_columns
    THEN [made |-> TRUE, raised |-> "no", written |-> FALSE, raw |-> <<>>,
          x |-> <<>>, y |-> <<>>]
    ELSE LET raw == PositionRows(g.n, positions)
             xs == [r \in DOMAIN raw |-> raw[r][1]]
             ys == [r \in DOMAIN raw |-> raw[r][2]]
         IN IF raw = <<>>
            THEN [made |-> TRUE, raised |-> "IndexError", written |-> FALSE,
                  raw |-> raw, x |-> <<>>, y |-> <<>>]
            ELSE [made |-> TRUE, raised |-> "no", written |-> TRUE,
                  raw |-> raw,
                  x |-> [r \in DOMAIN raw |-> Normalized(xs, r)],
                  y |-> [r \in DOMAIN raw |-> Normalized(ys, r)]]

\* The layout algorithm runs on the graph and update_graph_layout writes
\* the vertex table.
GraphLayout ==
    /\ pin.made
    /\ ~pout.made
    /\ \E positions \in [GraphNodes(pin.edges) -> LayoutPoints] :
         pout' = update_graph_layout(pin, positions)
    /\ UNCHANGED <<pin, appstate, fmvars>>

\* ------------------------------------------------- GraphView.reload_df
\* The vertex rows the edges of a reloaded table join.
ReloadRows == 0 .. 1

\* The edge tables a provider delivers to a graph view: up to two rows of
\* source and target row numbers.
ReloadEdgeTables ==
    UNION {[1 .. k -> ReloadRows \X ReloadRows] : k \in 0 .. 2}

\* nx.from_pandas_edgelist(..., create_using=nx.DiGraph): the directed
\* graph of an edge table, as its set of edges.
DiGraph(edges) == {edges[i] : i \in DOMAIN edges}

\* The nodes of a directed graph.
NodesOf(g) == {e[1] : e \in g} \cup {e[2] : e \in g}

\* nx.is_isomorphic on two directed graphs.
is_isomorphic(g1, g2) ==
    \E f \in [NodesOf(g1) -> NodesOf(g2)] :
        /\ \A a, b \in NodesOf(g1) : f[a] = f[b] => a = b
        /\ {f[a] : a \in NodesOf(g1)} = NodesOf(g2)
        /\ {<<f[e[1]], f[e[2]]>> : e \in g1} = g2

\* Two graphs on the vertex rows have the same shape: renumbering the rows
\* turns one into the other.
SameShape(g1, g2) ==
    \E f \in Permutations(ReloadRows) :
        {<<f[e[1]], f[e[2]]>> : e \in g1} = g2

\* Variant: every reload counts as a change of the graph.
ChangedAlways(nx_graph, new_graph) == TRUE

\* GraphView.update_nx_graph: "changed = self.nx_graph is None
\*                              or not nx.is_isomorphic(self.nx_graph, new_graph)"
Changed(nx_graph, new_graph) ==
    \/ ~nx_graph.built
    \/ ~is_isomorphic(nx_graph.graph, new_graph)

\* The tables and sinks of the application as a graph view sees them:
\* has_columns tells whether the edge table holds the integral columns
\* "source" and "target", v and e whether the vertex and the edge table hold
\* the graph columns, cds_v and cds_e whether the sinks do.
GraphApp(edges, has_columns) ==
    [made |-> TRUE, edges |-> edges, has_columns |-> has_columns,
     v |-> FALSE, e |-> FALSE, cds_v |-> FALSE, cds_e |-> FALSE]

\* GraphView.__init__: no graph yet, and the two column menus are created
\* without a value (columns_set: both have one).
GraphViewNew ==
    [made |-> TRUE, nx_graph |-> [built |-> FALSE, graph |-> {}],
     columns_set |-> FALSE, op |-> "construct", invoked |-> FALSE]

\* The tables Application.reload takes from the provider: a new edge table
\* without graph columns, or (kept_e) the table object of the last reload,
\* which a FilesystemDataProvider keeps when no edge file holds data; the
\* same for the vertex table (kept_v).
GraphTables(app, kept_v, kept_e, edges, has_columns) ==
    [app EXCEPT !.edges = IF kept_e THEN @ ELSE edges,
                !.has_columns = IF kept_e THEN @ ELSE has_columns,
                !.v = kept_v /\ @,
                !.e = kept_e /\ @]

\* GraphView.reload_df, the column menus: the selected columns stay when
\* both are integral columns of the edge table, otherwise they become what
\* detect_source_target_columns returns: the columns "source" and "target"
\* of the table, or (None, None).
ColumnsSet(app) == app.has_columns

\* GraphView.update_nx_graph: without a source and a target column it
\* returns None and keeps nx_graph; otherwise it replaces nx_graph by the
\* graph of the edge table and returns whether the graph changed.
update_nx_graph(nx_graph, columns_set, app) ==
    IF ~columns_set
    THEN [nx_graph |-> nx_graph, changed |-> FALSE]
    ELSE [nx_graph |-> [built |-> TRUE, graph |-> DiGraph(app.edges)],
          changed |-> Changed(nx_graph, DiGraph(app.edges))]

\* Application.reload with the graph view active: the tables are taken from
\* the provider, GraphView.reload_df sets the column menus, updates the
\* graph and calls update_graph_layout "if changed" (the layout writes the
\* graph columns to both tables, its push is held back by is_reloading),
\* then reload() pushes both tables to the sinks.
GraphViewReload ==
    /\ pin.made /\ pout.made
    /\ \E kept_v, kept_e, has_columns \in BOOLEAN,
          edges \in ReloadEdgeTables :
         /\ kept_e => (edges = pin.edges /\ has_columns = pin.has_columns)
         /\ LET app == GraphTables(pin, kept_v, kept_e, edges, has_columns)
                res == update_nx_graph(pout.nx_graph, ColumnsSet(app), app)
            IN /\ pin' = [app EXCEPT !.v = @ \/ res.changed,
                                     !.e = @ \/ res.changed,
                                     !.cds_v = app.v \/ res.changed,
                                     !.cds_e = app.e \/ res.changed]
               /\ pout' = [made |-> TRUE, nx_graph |-> res.nx_graph,
                           columns_set |-> ColumnsSet(app),
                           op |-> "reload", invoked |-> res.changed]
    /\ UNCHANGED <<appstate, fmvars>>

\* GraphView.on_ui_select_graph_layout_change and
\* on_ui_button_recompute_layout_click between two reloads:
\* update_graph_layout returns at "if not (source_column in
\* self.app.df_edges)" when no column is selected, otherwise it writes the
\* graph columns and pushes both tables.
GraphViewLayoutEvent ==
    /\ pin.made /\ pout.made
    /\ IF pout.columns_set
       THEN /\ pin' = [pin EXCEPT !.v = TRUE, !.e = TRUE,
                                  !.cds_v = TRUE, !.cds_e = TRUE]
            /\ pout' = [pout EXCEPT !.op = "layout", !.invoked = TRUE]
       ELSE /\ pin' = pin
            /\ pout' = [pout EXCEPT !.op = "layout", !.invoked = FALSE]
    /\ UNCHANGED <<appstate, fmvars>>

\* ------------------------------- GraphView.detect_source_target_columns
\* A column name is the sequence of its parts between ":" separators.
EdgeColumnNames ==
    {<<"source">>, <<"e", "source">>, <<"E", "Target">>, <<"e", "start">>,
     <<"e", "end">>}

\* str.lower on a part of a name.
LowerPart(t) ==
    CASE t = "E" -> "e"
      [] t = "Target" -> "target"
      [] OTHER -> t

\* str.lower on a column name.
Lower(name) == [i \in DOMAIN name |-> LowerPart(name[i])]

\* column_lc.rsplit(":", 1)[0]: the name without its last part, the whole
\* name when it has no ":".  With one ":" at most, both are the first part.
PrefixOf(name_lc) == name_lc[1]

\* The columns of an edge table in their order, and those of integer dtype.
DetectTables ==
    UNION {UNION {{[made |-> TRUE, columns |-> c, integral |-> i] :
                     i \in SUBSET {c[j] : j \in 1 .. k}} :
                  c \in {q \in [1 .. k -> EdgeColumnNames] :
                            \A a, b \in 1 .. k : q[a] = q[b] => a = b}} :
           k \in 0 .. MaxEdgeColumns}

\* "names_lc": the conventional pairs in their order.
names_lc ==
    <<<<"source", "target">>, <<"start", "end">>,
      <<"startnode.id", "endnode.id">>>>

\* columns_lc[key]: the column whose lower-case name is key (the last one).
ColumnOfKey(columns, key) ==
    columns[CHOOSE i \in DOMAIN columns :
               /\ Lower(columns[i]) = key
               /\ \A j \in DOMAIN columns : Lower(columns[j]) = key => j <= i]

\* The pair found under the prefix of column p with the pair number q.
Probe(columns, p, q) ==
    LET prefix_lc == PrefixOf(Lower(columns[p]))
        keys == {Lower(columns[i]) : i \in DOMAIN columns}
        s_lc == <<prefix_lc, names_lc[q][1]>>
        t_lc == <<prefix_lc, names_lc[q][2]>>
    IN IF s_lc \in keys /\ t_lc \in keys
       THEN [found |-> TRUE, source |-> ColumnOfKey(columns, s_lc),
             target |-> ColumnOfKey(columns, t_lc)]
       ELSE [found |-> FALSE]

\* GraphView.detect_source_target_columns: the loops over the prefixes and
\* the pairs, from position (p, q) on; <<>> stands for None.
RECURSIVE DetectFrom(_, _, _)
DetectFrom(columns, p, q) ==
    IF p > Len(columns) THEN [made |-> TRUE, source |-> <<>>, target |-> <<>>]
    ELSE IF q > Len(names_lc) THEN DetectFrom(columns, p + 1, 1)
    ELSE LET r == Probe(columns, p, q)
         IN IF r.found
            THEN [made |-> TRUE, source |-> r.source, target |-> r.target]
            ELSE DetectFrom(columns, p, q + 1)

detect_source_target_columns(columns) == DetectFrom(columns, 1, 1)

\* GraphView.reload_df detects the columns of the edge table.
DetectColumns ==
    /\ pin.made
    /\ ~pout.made
    /\ pout' = detect_source_target_columns(pin.columns)
    /\ UNCHANGED <<pin, appstate, fmvars>>

\* ---------------------------------------------------- ScatterView.reload_df
\* The columns a vertex table may have: the numeric ones and a column of
\* strings.
ScatterColumns == {"a", "b", "c"}
LabelColumns == {"l"}

\* The members of a list.
Members(xs) == {xs[i] : i \in DOMAIN xs}

\* df.columns of the tables: the columns in any order, no name twice.
DfColumns ==
    {xs \in UNION {[1 .. n -> ScatterColumns \cup LabelColumns] :
                     n \in 0 .. Cardinality(ScatterColumns \cup LabelColumns)} :
        Cardinality(Members(xs)) = Len(xs)}

\* cora.utils.scalar_columns(self.app.df): the numeric columns in the order
\* of df.columns.
ScalarColumnList(columns) ==
    SelectSeq(columns, LAMBDA c : c \in ScatterColumns)

\* The value of a Select widget: a column name or None.
SelectValues == ScatterColumns \cup {"None"}

\* A scatter view with its x and y choice and the columns of the new table.
ScatterInputs ==
    {[made |-> TRUE, columns |-> ScalarColumnList(columns), x |-> x,
      y |-> y] :
        columns \in DfColumns, x \in SelectValues, y \in SelectValues}

\* ScatterView.reload_df: "columns[0] if columns else None" for x and
\* "columns[min(1, len(columns))] if columns else None" for y; an index
\* beyond the list raises IndexError after x was assigned.
ScatterReloadDf(v) ==
    LET columns == v.columns
        x == IF v.x \in Members(columns) THEN v.x
             ELSE IF columns # <<>> THEN columns[1] ELSE "None"
        i == (IF 1 < Len(columns) THEN 1 ELSE Len(columns)) + 1
    IN IF v.y \in Members(columns)
       THEN [made |-> TRUE, raised |-> "no", options |-> columns,
             x |-> x, y |-> v.y]
       ELSE IF columns = <<>>
       THEN [made |-> TRUE, raised |-> "no", options |-> columns,
             x |-> x, y |-> "None"]
       ELSE IF i \in DOMAIN columns
       THEN [made |-> TRUE, raised |-> "no", options |-> columns,
             x |-> x, y |-> columns[i]]
       ELSE [made |-> TRUE, raised |-> "IndexError", options |-> columns,
             x |-> x, y |-> v.y]

\* Application.reload or a panel switch calls ScatterView.reload_df.
ScatterReload ==
    /\ pin.made
    /\ ~pout.made
    /\ pout' = ScatterReloadDf(pin)
    /\ UNCHANGED <<pin, appstate, fmvars>>

\* ------------------------------------------- selection across a reload
\* The numbers of rows of the vertex tables a provider delivers.
SelRowCounts == 0 .. 4

\* write_vertex_selection(indices) on a table of n rows, indices counted
\* from 0; path tells whether path_vertex_selection is set.  "if not
\* self.path_vertex_selection: return None" comes first: without a path
\* nothing is read and nothing is written.  "selected[indices] = 1" raises
\* IndexError for an index >= n.
write_vertex_selection(path, n, indices) ==
    IF ~path
    THEN [raised |-> "no", written |-> FALSE, mask |-> <<>>]
    ELSE IF \E i \in indices : i >= n
    THEN [raised |-> "IndexError", written |-> FALSE, mask |-> <<>>]
    ELSE [raised |-> "no", written |-> TRUE,
          mask |-> SelectionMask(n, {i + 1 : i \in indices})]

\* The user selects rows of the sink: Application.on_cds_selection_change
\* hands the new indices to the provider.
SelUserSelect ==
    /\ pin.made /\ pout.made
    /\ \E new \in SUBSET (0 .. pin.n - 1) :
         /\ new # pin.sel
         /\ pin' = [pin EXCEPT !.sel = new]
         /\ pout' = [made |-> TRUE, op |-> "select", handed |-> new,
                     result |-> write_vertex_selection(pin.path, pin.n,
                                                       new)]
    /\ UNCHANGED <<appstate, fmvars>>

\* Application.reload: the provider's table of n rows replaces the table
\* and the sink's data, cds.selected.indices is not touched, and the
\* reload ends with write_vertex_selection(self.cds.selected.indices).
SelReload ==
    /\ pin.made /\ pout.made
    /\ \E n \in SelRowCounts :
         /\ pin' = [pin EXCEPT !.n = n]
         /\ pout' = [made |-> TRUE, op |-> "reload", handed |-> pin.sel,
                     result |-> write_vertex_selection(pin.path, n,
                                                       pin.sel)]
    /\ UNCHANGED <<appstate, fmvars>>

\* ------------------------------- listeners of the plots a view replaces
\* The scalar columns of the vertex tables that have one, in the order of
\* df.columns.
ListenerTables ==
    {ScalarColumnList(columns) : columns \in DfColumns} \ {<<>>}

\* HistogramView.update_plot: HistogramPlot.__init__ registers the new plot
\* with cds.selected.on_change and factor_map.on_update.connect; the plot it
\* replaces stays registered.  listeners holds the field of every
\* registered plot.
NewPlot(view, column) ==
    [view EXCEPT !.shown = column,
                 !.listeners = Append(@, column),
                 !.raised = "no"]

\* Application.reload with a histogram view active: reload_df keeps the
\* column if the new table has it and takes the first column otherwise,
\* reload_cds calls update_plot.
ListenerReload ==
    /\ pin.made /\ pout.made
    /\ Len(pout.listeners) < MaxPlots
    /\ \E columns \in ListenerTables :
         LET value == IF pout.shown \in Members(columns) THEN pout.shown
                      ELSE columns[1]
         IN /\ pin' = [made |-> TRUE, columns |-> columns]
            /\ pout' = NewPlot(pout, value)
    /\ UNCHANGED <<appstate, fmvars>>

\* HistogramView.on_ui_select_column_change: update_plot for the new column.
ListenerColumnChange ==
    /\ pin.made /\ pout.made
    /\ Len(pout.listeners) < MaxPlots
    /\ \E new \in Members(pin.columns) :
         /\ new # pout.shown
         /\ pout' = NewPlot(pout, new)
    /\ UNCHANGED <<pin, appstate, fmvars>>

\* The selection of the sink changes: on_cds_selected_change of every
\* registered plot runs compute_histogram, which reads cds.data[field] and
\* raises KeyError for a field the sink does not hold.
ListenerSelectionChange ==
    /\ pin.made /\ pout.made
    /\ pout' = [pout EXCEPT !.raised =
                   IF \E i \in DOMAIN pout.listeners :
                         pout.listeners[i] \notin Members(pin.columns)
                   THEN "KeyError" ELSE "no"]
    /\ UNCHANGED <<pin, appstate, fmvars>>

\* ------------------------------------------ ViewBase.is_reloading guard
\* Variant: the guard looks at the application's flag only.
is_reloading_app_only(reload_counter, app_is_reloading) == app_is_reloading

\* ViewBase.is_reloading:
\* "self._reload_counter > 0 or self.app.is_reloading"
view_is_reloading(reload_counter, app_is_reloading) ==
    reload_counter > 0 \/ app_is_reloading

\* HistogramView.on_ui_select_column_change: the number of plots it builds.
HandlerBuilds(reload_counter, app_is_reloading) ==
    IF view_is_reloading(reload_counter, app_is_reloading) THEN 0 ELSE 1

\* The view between two events: no reload scope is open.
GuardIdle(panel, columns, op) ==
    [made |-> TRUE, panel |-> panel, columns |-> columns,
     app_is_reloading |-> FALSE, reload_counter |-> 0, pc |-> "idle",
     op |-> op]

\* Application.reload up to the views' reload_df: is_reloading is True.
GuardBeginReload ==
    /\ pin.made /\ pout.made
    /\ pin.pc = "idle"
    /\ \E columns \in ListenerTables :
         pin' = [made |-> TRUE, panel |-> pin.panel, columns |-> columns,
                 app_is_reloading |-> TRUE, reload_counter |-> 0,
                 pc |-> "df", op |-> "reload"]
    /\ pout' = [pout EXCEPT !.assigned = FALSE, !.handler_builds = 0,
                            !.cds_builds = 0]
    /\ UNCHANGED <<appstate, fmvars>>

\* Application.on_ui_select_panel_left_change / _right_change up to
\* reload_df: a new view (nothing chosen in its widget) enters begin_reload,
\* the application is not reloading.
GuardBeginSwitch ==
    /\ pin.made /\ pout.made
    /\ pin.pc = "idle"
    /\ \E panel \in {"left", "right"} :
         pin' = [pin EXCEPT !.panel = panel, !.reload_counter = @ + 1,
                            !.pc = "df", !.op = "switch"]
    /\ pout' = [made |-> TRUE, value |-> "None", assigned |-> FALSE,
                handler_builds |-> 0, cds_builds |-> 0]
    /\ UNCHANGED <<appstate, fmvars>>

\* HistogramView.reload_df: assigning another value to the widget runs
\* on_ui_select_column_change at once.
GuardReloadDf ==
    /\ pin.made /\ pout.made
    /\ pin.pc = "df"
    /\ LET new == IF pout.value \in Members(pin.columns) THEN pout.value
                  ELSE pin.columns[1]
       IN pout' = [pout EXCEPT
                     !.value = new,
                     !.assigned = (new # pout.value),
                     !.handler_builds =
                         IF new # pout.value
                         THEN @ + HandlerBuilds(pin.reload_counter,
                                                pin.app_is_reloading)
                         ELSE @]
    /\ pin' = [pin EXCEPT !.pc = "cds"]
    /\ UNCHANGED <<appstate, fmvars>>

\* HistogramView.reload_cds, then the end of the reload scope.
GuardReloadCds ==
    /\ pin.made /\ pout.made
    /\ pin.pc = "cds"
    /\ pout' = [pout EXCEPT !.cds_builds = @ + 1]
    /\ pin' = GuardIdle(pin.panel, pin.columns, pin.op)
    /\ UNCHANGED <<appstate, fmvars>>

\* The user chooses another column between two reloads.
GuardUserChange ==
    /\ pin.made /\ pout.made
    /\ pin.pc = "idle"
    /\ \E new \in Members(pin.columns) :
         /\ new # pout.value
         /\ pout' = [made |-> TRUE, value |-> new, assigned |-> FALSE,
                     handler_builds |-> HandlerBuilds(pin.reload_counter,
                                                      pin.app_is_reloading),
                     cds_builds |-> 0]
    /\ pin' = [pin EXCEPT !.op = "user"]
    /\ UNCHANGED <<appstate, fmvars>>

\* -------------------------- FilesystemDataProvider, AmiraDataProvider
\* The provider on its own, with any number of registered files.
\* FilesystemDataProvider takes any path as a vertex csv or as an edge csv;
\* AmiraDataProvider goes by the name of the file (re_vertex_csv,
\* re_edge_csv).
VertexPaths == {"vertex_a.csv"}
EdgePaths == {"edge_a.csv"}
Paths == VertexPaths \cup EdgePaths
FileProviders == {"filesystem", "amira"}
Roles == {"vertex", "edge"}

\* Largest number of FileHandle objects the provider holds in vertex_handles
\* or edge_handles although file_handles refers to a newer one.
MaxStaleHandles == 1

\* The state of one file and of its handles: role tells in which of
\* vertex_handles / edge_handles the handle of file_handles[path] is ("none":
\* the path is no key of file_handles), exists whether the file is there,
\* dirty and data are the fields of that handle; old are the handles of the
\* file that vertex_handles / edge_handles still hold although file_handles
\* does not refer to them any more.
\* No FileHandle is registered for the path.
NoFileHandle(exists, old) ==
    [role |-> "none", exists |-> exists, dirty |-> FALSE, data |-> NoData,
     old |-> old]

\* "FileHandle(path=path, prefix=prefix, dirty=True, data=None, ...)", stored
\* as file_handles[path] and added to the handles of its role.
FileHandle(role, exists, old) ==
    [role |-> role, exists |-> exists, dirty |-> TRUE, data |-> NoData,
     old |-> old]

\* "path in self.file_handles" for the absolute path.
Registered(h) == h.role # "none"

\* The handle file_handles[path] as one of the handles its role still holds.
OldHandle(h) == [role |-> h.role, dirty |-> h.dirty, data |-> h.data]

\* AmiraDataProvider.try_add_vertex / try_add_edge: the role the name of the
\* file gives it.
NameRole(path) == IF path \in VertexPaths THEN "vertex" ELSE "edge"

\* FilesystemDataProvider.is_ready:
\* "all(info.path.exists() for info in self.file_handles.values())"
is_ready(handles) ==
    \A path \in Paths : Registered(handles[path]) => handles[path].exists

\* The number of handles of all files that file_handles does not refer to.
RECURSIVE StaleHandles(_, _)
StaleHandles(handles, paths) ==
    IF paths = {} THEN 0
    ELSE LET path == CHOOSE q \in paths : TRUE
         IN Len(handles[path].old) + StaleHandles(handles, paths \ {path})

\* What a call of the provider leaves behind: the function called, whether
\* it raised, the number of notify_change() calls it made and the tables
\* ("df", "df_edges") it assigned.
ProviderCall(op, raised, notified) ==
    [made |-> TRUE, op |-> op, raised |-> raised, emitted |-> notified,
     assigned |-> {}]

\* add_vertex_csv / add_edge_csv for path; absolute tells whether the caller
\* gives the path in absolute form.  "assert path not in self.file_handles"
\* tests the path as given against keys that are absolute paths: it fails
\* for the absolute path of a registered file only.  Then a new handle is
\* stored under the absolute path and added to the handles of the role (the
\* handle it replaces in file_handles stays among the handles of its role),
\* and notify_change() is called.
AddCsv(path, absolute, role, op) ==
    LET h == pin.handles[path]
        old == IF Registered(h) THEN Append(h.old, OldHandle(h)) ELSE h.old
    IN IF absolute /\ Registered(h)
       THEN /\ pout' = ProviderCall(op, TRUE, 0)
            /\ UNCHANGED pin
       ELSE /\ Registered(h) =>
                 StaleHandles(pin.handles, Paths) < MaxStaleHandles
            /\ pin' = [pin EXCEPT
                         !.handles[path] = FileHandle(role, h.exists, old)]
            /\ pout' = ProviderCall(op, FALSE, 1)

\* remove_vertex_csv / remove_edge_csv for path: "if path not in
\* self.file_handles: return None" tests the path as given, "if info not in
\* self.vertex_handles: return None" the role; otherwise the handle is
\* dropped from file_handles and from the handles of its role, and
\* notify_change() is called.
RemoveCsv(path, absolute, role, op) ==
    LET h == pin.handles[path]
    IN IF ~absolute \/ h.role # role
       THEN /\ pout' = ProviderCall(op, FALSE, 0)
            /\ UNCHANGED pin
       ELSE /\ pin' = [pin EXCEPT
                         !.handles[path] = NoFileHandle(h.exists, h.old)]
            /\ pout' = ProviderCall(op, FALSE, 1)

\* The four calls below are made on a FilesystemDataProvider (add_vertex_csv
\* and add_edge_csv by coda/__main__.py, with the paths of the command line);
\* an AmiraDataProvider registers its files itself, in on_created.
add_vertex_csv ==
    /\ pin.made /\ pout.made
    /\ pin.kind = "filesystem"
    /\ \E path \in Paths, absolute \in BOOLEAN :
         AddCsv(path, absolute, "vertex", "add_vertex_csv")
    /\ UNCHANGED <<appstate, fmvars>>

remove_vertex_csv ==
    /\ pin.made /\ pout.made
    /\ pin.kind = "filesystem"
    /\ \E path \in Paths, absolute \in BOOLEAN :
         RemoveCsv(path, absolute, "vertex", "remove_vertex_csv")
    /\ UNCHANGED <<appstate, fmvars>>

add_edge_csv ==
    /\ pin.made /\ pout.made
    /\ pin.kind = "filesystem"
    /\ \E path \in Paths, absolute \in BOOLEAN :
         AddCsv(path, absolute, "edge", "add_edge_csv")
    /\ UNCHANGED <<appstate, fmvars>>

remove_edge_csv ==
    /\ pin.made /\ pout.made
    /\ pin.kind = "filesystem"
    /\ \E path \in Paths, absolute \in BOOLEAN :
         RemoveCsv(path, absolute, "edge", "remove_edge_csv")
    /\ UNCHANGED <<appstate, fmvars>>

\* A file appears or disappears on the disk; no code of the provider runs.
path_change ==
    /\ pin.made /\ pout.made
    /\ \E path \in Paths :
         pin' = [pin EXCEPT !.handles[path].exists = ~@]
    /\ pout' = ProviderCall("path_change", FALSE, 0)
    /\ UNCHANGED <<appstate, fmvars>>

\* The observer reports that a file was modified;
\* FilesystemDataProvider.on_modified (inherited by AmiraDataProvider):
\* "info = self.file_handles.get(src_path); if info is not None:
\* info.dirty = True; self.notify_change()".
on_modified ==
    /\ pin.made /\ pout.made
    /\ \E path \in Paths :
         IF Registered(pin.handles[path])
         THEN /\ pin' = [pin EXCEPT !.handles[path] = OnModified(@)]
              /\ pout' = ProviderCall("on_modified", FALSE, 1)
         ELSE /\ pout' = ProviderCall("on_modified", FALSE, 0)
              /\ UNCHANGED pin
    /\ UNCHANGED <<appstate, fmvars>>

\* The observer reports that a file was deleted.
\* FilesystemDataProvider.on_deleted: a registered handle is unwatched and
\* notify_change() is called.  AmiraDataProvider.on_deleted first asks
\* "src_path.is_file()": for a file that is there (again) it calls
\* remove_vertex_csv and remove_edge_csv with the absolute path, then
\* remove_colormap_csv, which no class defines (AttributeError); for a file
\* that is not there it goes on to the inherited callback.
on_deleted ==
    /\ pin.made /\ pout.made
    /\ \E path \in Paths :
         LET h == pin.handles[path]
         IN IF pin.kind = "amira" /\ h.exists
            THEN /\ pin' = [pin EXCEPT
                              !.handles[path] =
                                  IF Registered(h)
                                  THEN NoFileHandle(h.exists, h.old) ELSE @]
                 /\ pout' = ProviderCall("on_deleted", TRUE,
                                         IF Registered(h) THEN 1 ELSE 0)
            ELSE /\ pin' = [pin EXCEPT !.handles[path] = OnDeleted(@)]
                 /\ pout' = ProviderCall("on_deleted", FALSE,
                                         IF Registered(h) THEN 1 ELSE 0)
    /\ UNCHANGED <<appstate, fmvars>>

\* The observer reports that a file was created.
\* FilesystemDataProvider.on_created: a registered handle is watched and
\* notify_change() is called.  AmiraDataProvider.on_created first asks
\* "src_path.is_file()": for a file that is (still) there it calls
\* try_add_vertex / try_add_edge with the absolute path: add_vertex_csv /
\* add_edge_csv registers the path and notifies, or fails its assertion for
\* a path that is registered; then the inherited callback notifies again.
on_created ==
    /\ pin.made /\ pout.made
    /\ \E path \in Paths :
         LET h == pin.handles[path]
         IN IF pin.kind = "amira" /\ h.exists
            THEN IF Registered(h)
                 THEN /\ pin' = pin
                      /\ pout' = ProviderCall("on_created", TRUE, 0)
                 ELSE /\ pin' = [pin EXCEPT
                                   !.handles[path] =
                                       FileHandle(NameRole(path), TRUE,
                                                  h.old)]
                      /\ pout' = ProviderCall("on_created", FALSE, 2)
            ELSE /\ pin' = [pin EXCEPT !.handles[path] = OnCreated(@)]
                 /\ pout' = ProviderCall("on_created", FALSE,
                                         IF Registered(h) THEN 1 ELSE 0)
    /\ UNCHANGED <<appstate, fmvars>>

\* The handles vertex_handles (role "vertex") or edge_handles (role "edge")
\* holds: <<path, 0>> is the handle of file_handles[path], <<path, i>> the
\* i-th of the older handles of the file.
HandlesOf(handles, role) ==
    {o \in Paths \X (0 .. MaxStaleHandles) :
        IF o[2] = 0 THEN handles[o[1]].role = role
        ELSE /\ o[2] \in DOMAIN handles[o[1]].old
             /\ handles[o[1]].old[o[2]].role = role}

\* The fields the loop of reload_vertex / reload_edge reads of handle o.
HandleFields(handles, o) ==
    LET h == handles[o[1]]
    IN IF o[2] = 0
       THEN [exists |-> h.exists, dirty |-> h.dirty, data |-> h.data]
       ELSE [exists |-> h.exists, dirty |-> h.old[o[2]].dirty,
             data |-> h.old[o[2]].data]

\* The handles after the loop of reload_vertex / reload_edge has visited the
\* handles in done.
ReloadHandles(handles, done) ==
    [path \in Paths |->
        LET h == handles[path]
            r == ReloadHandle(HandleFields(handles, <<path, 0>>))
        IN [h EXCEPT
              !.dirty = IF <<path, 0>> \in done THEN r.dirty ELSE @,
              !.data = IF <<path, 0>> \in done THEN r.data ELSE @,
              !.old = [i \in DOMAIN h.old |->
                         LET q == ReloadHandle(
                                      HandleFields(handles, <<path, i>>))
                         IN IF <<path, i>> \in done
                            THEN [h.old[i] EXCEPT !.dirty = q.dirty,
                                                  !.data = q.data]
                            ELSE h.old[i]]]]

\* "dfs = [... for info in self.vertex_handles if info.data is not None]":
\* the handles of the role that hold data.
Dfs(handles, role) ==
    {o \in HandlesOf(handles, role) :
        HandleFields(handles, o).data # NoData}

\* "if dfs: self.df = pd.concat(dfs, axis='columns')": the table is made of
\* the frames of the handles that hold data (their number, by file), or it
\* is the old one.
MergeHandles(handles, role, old) ==
    IF Dfs(handles, role) # {}
    THEN [path \in Paths |->
            Cardinality({o \in Dfs(handles, role) : o[1] = path})]
    ELSE old

\* The tables a reload assigned, when its loops left the handles hs and
\* reload_edge reached its end or not.
Assigned(hs, edge) ==
    {t \in {"df"} : Dfs(hs, "vertex") # {}}
    \cup {t \in {"df_edges"} : edge /\ Dfs(hs, "edge") # {}}

\* FilesystemDataProvider.reload (inherited by AmiraDataProvider):
\* reload_vertex(), then reload_edge(), neither asks is_ready() and neither
\* calls notify_change().  pd.read_csv may raise for a file that is read;
\* the handles the loop visited before it keep what was done to them.
ProviderReload ==
    /\ pin.made /\ pout.made
    /\ LET vs == HandlesOf(pin.handles, "vertex")
           es == HandlesOf(pin.handles, "edge")
       IN \/ \* both succeed
             LET hs == ReloadHandles(pin.handles, vs \cup es)
             IN /\ pin' = [pin EXCEPT
                             !.handles = hs,
                             !.df = MergeHandles(hs, "vertex", @),
                             !.df_edges = MergeHandles(hs, "edge", @)]
                /\ pout' = [ProviderCall("reload", FALSE, 0) EXCEPT
                              !.assigned = Assigned(hs, TRUE)]
          \/ \* pd.read_csv raises in reload_vertex
             \E bad \in vs, done \in SUBSET vs :
                /\ ReadsFile(HandleFields(pin.handles, bad))
                /\ bad \notin done
                /\ pin' = [pin EXCEPT
                             !.handles = ReloadHandles(pin.handles, done)]
                /\ pout' = ProviderCall("reload", TRUE, 0)
          \/ \* reload_vertex succeeds, pd.read_csv raises in reload_edge
             \E bad \in es, done \in SUBSET es :
                /\ ReadsFile(HandleFields(pin.handles, bad))
                /\ bad \notin done
                /\ LET hs == ReloadHandles(pin.handles, vs \cup done)
                   IN /\ pin' = [pin EXCEPT
                                   !.handles = hs,
                                   !.df = MergeHandles(hs, "vertex", @)]
                      /\ pout' = [ProviderCall("reload", TRUE, 0) EXCEPT
                                    !.assigned = Assigned(hs, FALSE)]
    /\ UNCHANGED <<appstate, fmvars>>

\* ------------------------------------------------------ PCAView, UMAPView
\* The cells of a scalar column: a number or the missing value.
ReducerCells == {"0", "nan"}

\* The names of the scalar columns a provider may deliver.
ReducerColumns == {"a", "b"}

\* The vertex tables a provider delivers to a PCA or UMAP view.
ReducerTables ==
    UNION {[S -> [1 .. n -> ReducerCells]] :
             S \in SUBSET ReducerColumns, n \in 1 .. MaxReducerRows}

\* Variant: "pd.isnull(values).all().all()".
isnull_all(table, columns) ==
    \A c \in columns : \A r \in DOMAIN table[c] : table[c][r] = "nan"

\* "pd.isnull(values).any().any()" with values = df[columns]
isnull_any(table, columns) ==
    \E c \in columns : \E r \in DOMAIN table[c] : table[c][r] = "nan"

\* coda.utils.scalar_columns on a table of numeric columns: every column,
\* or with allow_nan=False the columns without a missing value.
scalar_columns(table, allow_nan) ==
    IF allow_nan THEN DOMAIN table
    ELSE {c \in DOMAIN table : ~isnull_any(table, {c})}

\* UMAPView.ui_ncomponents: "Spinner(value=2, low=2, high=4, step=1)".
NComponentsValue == 2
NComponentsLow == 2
NComponentsHigh == 4

\* The view after its construction: no options, no selected column, an
\* empty variance series; features are the embedding columns of app.df,
\* ncomponents is ui_ncomponents.value of a UMAP view and app_is_reloading
\* the flag of the application the view belongs to.
ReducerViewNew(view, table) ==
    [made |-> TRUE, view |-> view, df |-> table, options |-> {}, value |-> {},
     features |-> {}, variance |-> 0, ncomponents |-> NComponentsValue,
     app_is_reloading |-> FALSE]

\* What the view has done so far: the last event, the number of events, of
\* reducer invocations, of writes of embedding columns, of updates of the
\* variance series and of sink pushes the view asked for.
ReducerLogNew ==
    [made |-> TRUE, op |-> "construct", events |-> 0, runs |-> 0,
     writes |-> 0, variance_updates |-> 0, pushes |-> 0, raised |-> FALSE]

\* The number of rows of the table: of any of its columns.
ReducerRows(v) == Len(v.df[CHOOSE c \in DOMAIN v.df : TRUE])

\* The number of embedding columns the loop writes: "range(len(columns))"
\* in update_pca, "range(n_components)" with ui_ncomponents.value in
\* compute_umap.
NComponents(v) ==
    IF v.view = "PCA" THEN Cardinality(v.value) ELSE v.ncomponents

\* The number of columns of the array fit_transform returns: PCA() keeps
\* min(n_samples, n_features) components, UMAP n_components.
NColumns(v) ==
    IF v.view = "PCA"
    THEN IF ReducerRows(v) < Cardinality(v.value) THEN ReducerRows(v)
         ELSE Cardinality(v.value)
    ELSE v.ncomponents

\* The name of the i-th embedding column: "pca:feature:{i}" of a PCA view,
\* "umap:feature:{i}" of a UMAP view.
FeatureColumn(i) ==
    <<"feature:0", "feature:1", "feature:2", "feature:3">>[i + 1]

\* "self.app.df[f"pca:feature:{i}"] = components[:, i]" for the numbers in
\* indices: the table gets (or keeps) a column of numbers for each.
WriteFeatures(v, indices) ==
    [c \in DOMAIN v.df \cup {FeatureColumn(i) : i \in indices} |->
        IF \E i \in indices : c = FeatureColumn(i)
        THEN [r \in 1 .. ReducerRows(v) |-> "0"]
        ELSE v.df[c]]

\* PCAView.update_pca and UMAPView.compute_umap; ok tells whether
\* fit_transform returned or raised.  When the loop asks for more columns
\* than the array has, the columns that exist are written, then
\* "components[:, i]" raises IndexError: the variance series and the push
\* are not reached.  The result is the view and the log.
update_reducer(v, e, ok) ==
    IF v.value = {} \/ isnull_any(v.df, v.value)
    THEN [view |-> v, log |-> e]
    ELSE IF ~ok
    THEN [view |-> v,
          log |-> [e EXCEPT !.runs = @ + 1, !.raised = TRUE]]
    ELSE IF NColumns(v) < NComponents(v)
    THEN [view |-> [v EXCEPT !.features = @ \cup (0 .. NColumns(v) - 1),
                             !.df = WriteFeatures(v, 0 .. NColumns(v) - 1)],
          log |-> [e EXCEPT !.runs = @ + 1, !.writes = @ + 1,
                            !.raised = TRUE]]
    ELSE [view |-> [v EXCEPT !.features = @ \cup (0 .. NComponents(v) - 1),
                             !.df = WriteFeatures(v, 0 .. NComponents(v) - 1),
                             !.variance = IF v.view = "PCA"
                                          THEN NComponents(v) ELSE @],
          log |-> [e EXCEPT !.runs = @ + 1,
                            !.writes = @ + 1,
                            !.variance_updates =
                                IF v.view = "PCA" THEN @ + 1 ELSE @,
                            !.pushes = @ + 1]]

\* The log at the start of an event.
ReducerEvent(op) ==
    [pout EXCEPT !.op = op, !.events = @ + 1, !.raised = FALSE]

\* Application.reload with the view active: behind its guard
\* "if self.is_reloading: return None" the provider's table replaces
\* app.df (a new table, or the table object of the last reload with its
\* embedding columns, which a FilesystemDataProvider keeps when no vertex
\* file holds data), then PCAView.reload_df or UMAPView.reload_df filters the
\* selection and calls update_pca or compute_umap.  The change handler of
\* the selection returns at once, because the application is reloading.  An
\* exception of the reducer leaves reload() before "self.is_reloading =
\* False".
ReducerReloadDf ==
    /\ pin.made /\ pout.made
    /\ pout.events < MaxEvents
    /\ ~pin.app_is_reloading
    /\ \E table \in ReducerTables \cup {pin.df} : \E ok \in BOOLEAN :
         LET columns == scalar_columns(table, pin.view = "UMAP")
             v == [pin EXCEPT !.df = table,
                              !.features = IF table = pin.df THEN @ ELSE {},
                              !.options = columns,
                              !.value = pin.value \cap columns]
             res == update_reducer(v, ReducerEvent("reload"), ok)
         IN /\ pin' = [res.view EXCEPT !.app_is_reloading = res.log.raised]
            /\ pout' = res.log
    /\ UNCHANGED <<appstate, fmvars>>

\* Application.reload called while is_reloading is True (the flag a failed
\* reload left behind): it returns at its guard.
ReducerReloadGuarded ==
    /\ pin.made /\ pout.made
    /\ pout.events < MaxEvents
    /\ pin.app_is_reloading
    /\ pout' = ReducerEvent("reload")
    /\ UNCHANGED <<pin, appstate, fmvars>>

\* PCAView.on_ui_multichoice_columns_change: the user chose other columns
\* among the options; "if self.is_reloading: return None".
on_ui_multichoice_columns_change ==
    /\ pin.made /\ pout.made
    /\ pin.view = "PCA"
    /\ pout.events < MaxEvents
    /\ \E new \in SUBSET pin.options : \E ok \in BOOLEAN :
         /\ new # pin.value
         /\ LET v == [pin EXCEPT !.value = new]
                e == ReducerEvent("columns")
                res == IF view_is_reloading(0, pin.app_is_reloading)
                       THEN [view |-> v, log |-> e]
                       ELSE update_reducer(v, e, ok)
            IN /\ pin' = res.view
               /\ pout' = res.log
    /\ UNCHANGED <<appstate, fmvars>>

\* The user chose other columns in UMAPView.ui_columns, which has no
\* change handler: no event reaches the view.
ui_columns_change ==
    /\ pin.made /\ pout.made
    /\ pin.view = "UMAP"
    /\ \E new \in SUBSET pin.options :
         /\ new # pin.value
         /\ pin' = [pin EXCEPT !.value = new]
    /\ UNCHANGED <<pout, appstate, fmvars>>

\* The user set another number in UMAPView.ui_ncomponents, which has no
\* change handler either.
ui_ncomponents_change ==
    /\ pin.made /\ pout.made
    /\ pin.view = "UMAP"
    /\ \E new \in NComponentsLow .. NComponentsHigh :
         /\ new # pin.ncomponents
         /\ pin' = [pin EXCEPT !.ncomponents = new]
    /\ UNCHANGED <<pout, appstate, fmvars>>

\* UMAPView.on_ui_apply_click: "if self.is_reloading: return None", then
\* compute_umap().
on_ui_apply_click ==
    /\ pin.made /\ pout.made
    /\ pin.view = "UMAP"
    /\ pout.events < MaxEvents
    /\ \E ok \in BOOLEAN :
         LET e == ReducerEvent("apply")
             res == IF view_is_reloading(0, pin.app_is_reloading)
                    THEN [view |-> pin, log |-> e]
                    ELSE update_reducer(pin, e, ok)
         IN /\ pin' = res.view
            /\ pout' = res.log
    /\ UNCHANGED <<appstate, fmvars>>

\* ------------------------------------------- HistogramView and SplomView
\* The rows and the integer scalar columns of the tables shown.
HistRows == {1, 2}
HistColumns == {"a", "b"}
\* df.columns: the two columns in either order.
HistColumnLists == {<<"a", "b">>, <<"b", "a">>}
HistTables == [HistColumns -> [HistRows -> {0, 1}]]

\* "nbins=10" of the HistogramPlot both views create.
HistogramViewBins == 10

\* The value of ui_select_color before the user chooses: the Select is
\* created without a value.
NoColor == ""

\* Application.update_colormap: fmap_color computed for the column chosen
\* in ui_select_color (neither "" nor "None" is a column of the table).
ColorMap(table, color) ==
    IF color \in {NoColor, "None"}
    THEN update_df(FactorMapNew(<<"red", "green">>, "CYCLE", "None"),
                   FrameWithout(Cardinality(HistRows))).fm
    ELSE update_df(FactorMapNew(<<"red", "green">>, "CYCLE", "label"),
                   Frame(table[color])).fm

\* HistogramPlot.update for the plot of one column.
HistogramOf(table, column, color, sel) ==
    LET f == ColorMap(table, color)
    IN compute_histogram(table[column], f.id_column, Len(f.factors), sel,
                         HistogramViewBins)

\* Application state the histograms depend on: the table with the order of
\* its columns, the colour column and the selection.
HistApp(view, table, columns) ==
    [made |-> TRUE, view |-> view, table |-> table, columns |-> columns,
     color |-> NoColor, sel |-> {}]

\* The view after the reload that created it: a HistogramView shows
\* "columns[0]" of scalar_columns(self.app.df), the first column of
\* df.columns, a SplomView no column; plots are the HistogramPlot objects
\* the view holds, by column.
HistViewNew(view, table, columns) ==
    IF view = "Histogram"
    THEN [made |-> TRUE, shown |-> {columns[1]},
          plots |-> [c \in {columns[1]} |->
                        HistogramOf(table, c, NoColor, {})],
          events |-> 0]
    ELSE [made |-> TRUE, shown |-> {}, plots |-> <<>>, events |-> 0]

\* HistogramPlot.update of every plot the view holds.
UpdatePlots(plots, a) ==
    [c \in DOMAIN plots |-> HistogramOf(a.table, c, a.color, a.sel)]

\* SplomView.update_layout -> create_histogram for every selected column:
\* a column that has a plot keeps it.
CreateHistograms(plots, value, a) ==
    [c \in DOMAIN plots \cup value |->
        IF c \in DOMAIN plots THEN plots[c]
        ELSE HistogramOf(a.table, c, a.color, a.sel)]

\* HistogramView.update_plot: a new plot replaces the old one.
UpdatePlot(column, a) ==
    [c \in {column} |-> HistogramOf(a.table, c, a.color, a.sel)]

\* The user changed the selection of the sink:
\* HistogramPlot.on_cds_selected_change of every plot.
on_cds_selected_change ==
    /\ pin.made /\ pout.made
    /\ pout.events < MaxHistEvents
    /\ \E new \in SUBSET HistRows :
         /\ new # pin.sel
         /\ pin' = [pin EXCEPT !.sel = new]
         /\ pout' = [pout EXCEPT !.plots = UpdatePlots(@, pin'),
                                 !.events = @ + 1]
    /\ UNCHANGED <<appstate, fmvars>>

\* The user chooses another entry of ui_select_color ("None" is one, also
\* as the first choice); Application.on_ui_select_color_change:
\* update_colormap, then fmap_color.push_df_to_cds sends on_update:
\* HistogramPlot.on_factor_map_update of every plot.
on_factor_map_update ==
    /\ pin.made /\ pout.made
    /\ pout.events < MaxHistEvents
    /\ \E new \in {"None"} \cup HistColumns :
         /\ new # pin.color
         /\ pin' = [pin EXCEPT !.color = new]
         /\ pout' = [pout EXCEPT !.plots = UpdatePlots(@, pin'),
                                 !.events = @ + 1]
    /\ UNCHANGED <<appstate, fmvars>>

\* HistogramView.on_ui_select_column_change
on_ui_select_column_change ==
    /\ pin.made /\ pout.made
    /\ pin.view = "Histogram"
    /\ pout.events < MaxHistEvents
    /\ \E new \in HistColumns :
         /\ pout.shown # {new}
         /\ pout' = [pout EXCEPT !.shown = {new},
                                 !.plots = UpdatePlot(new, pin),
                                 !.events = @ + 1]
    /\ UNCHANGED <<pin, appstate, fmvars>>

\* SplomView.on_multichoice_columns_change
on_multichoice_columns_change ==
    /\ pin.made /\ pout.made
    /\ pin.view = "SPLOM"
    /\ pout.events < MaxHistEvents
    /\ \E new \in SUBSET HistColumns :
         /\ new # pout.shown
         /\ pout' = [pout EXCEPT !.shown = new,
                                 !.plots = CreateHistograms(@, new, pin),
                                 !.events = @ + 1]
    /\ UNCHANGED <<pin, appstate, fmvars>>

\* Application.reload with the view active: the provider's table replaces
\* the tables, update_colormap recomputes fmap_color without a signal, the
\* sink gets the table, then HistogramView.reload_cds makes a new plot and
\* SplomView.reload_cds calls update_layout.
HistReload ==
    /\ pin.made /\ pout.made
    /\ pout.events < MaxHistEvents
    /\ \E table \in HistTables, columns \in HistColumnLists :
         /\ pin' = [pin EXCEPT !.table = table, !.columns = columns]
         /\ pout' = [pout EXCEPT
                        !.plots =
                            IF pin.view = "Histogram"
                            THEN UpdatePlot(CHOOSE c \in pout.shown : TRUE,
                                            pin')
                            ELSE CreateHistograms(@, pout.shown, pin'),
                        !.events = @ + 1]
    /\ UNCHANGED <<appstate, fmvars>>

\* ----------------------------------------------------------- specification
\* The state after Application.__init__: the provider has registered its
\* files but never reloaded, tables and sinks are empty, no FactorMap has
\* been computed, no panel is shown.
AppInit ==
    /\ provider \in Providers
    /\ vfile = IF IsFilesystem THEN NewHandle ELSE NoHandle
    /\ efile = IF IsFilesystem THEN NewHandle ELSE NoHandle
    /\ pdf = [id |-> 0]
    /\ pdf_edges = [id |-> 0]
    /\ presult = "none"
    /\ emitted = 0
    /\ ticks = 0
    /\ is_reloading = FALSE
    /\ automatic_reload = FALSE
    /\ button_disabled = FALSE
    /\ df = EmptyTable
    /\ df_edges = EmptyTable
    /\ cds = EmptyTable
    /\ cds_edges = EmptyTable
    /\ vsel = {}
    /\ esel = {}
    /\ emsel = {}
    /\ fmap_color = NoFactorMap
    /\ fmap_marker = NoFactorMap
    /\ fmap_color_edges = NoFactorMap
    /\ panel_left = NoView
    /\ panel_right = NoView
    /\ pc = "idle"
    /\ stack = <<>>
    /\ outcome = "none"
    /\ steps = <<>>
    /\ wlog = <<>>
    /\ nested = "none"
    /\ replaced = <<0, 0>>
    /\ pre = NoSnapshot
    /\ events_after_raise = 0

\* Application.__init__ has run; no object is studied on its own.
Init ==
    /\ AppInit
    /\ fm = NoFactorMapObject
    /\ fdf = NoFrame
    /\ pin = NoInput
    /\ pout = NoOutput

Next ==
    \/ on_ui_button_reload_click /\ UNCHANGED purevars
    \/ set_automatic_reload /\ UNCHANGED purevars
    \/ NextTick /\ UNCHANGED purevars
    \/ NestedReload /\ UNCHANGED purevars
    \/ ReloadProvider /\ UNCHANGED purevars
    \/ ReloadReplace /\ UNCHANGED purevars
    \/ update_colormap /\ UNCHANGED purevars
    \/ update_markermap /\ UNCHANGED purevars
    \/ update_edge_colormap /\ UNCHANGED purevars
    \/ ReloadViewsDf /\ UNCHANGED purevars
    \/ ReloadPush /\ UNCHANGED purevars
    \/ ReloadViewsCds /\ UNCHANGED purevars
    \/ ReloadLayout /\ UNCHANGED purevars
    \/ ReloadClear /\ UNCHANGED purevars
    \/ ReloadWriteback /\ UNCHANGED purevars
    \/ ReloadRaise /\ UNCHANGED purevars
    \/ on_cds_selection_change /\ UNCHANGED purevars
    \/ on_cds_edges_indices_change /\ UNCHANGED purevars
    \/ on_cds_edges_multiline_indices_change /\ UNCHANGED purevars
    \/ on_ui_select_color_change /\ UNCHANGED purevars
    \/ on_ui_select_marker_change /\ UNCHANGED purevars
    \/ on_ui_select_color_edges_change /\ UNCHANGED purevars
    \/ on_ui_select_panel_left_change /\ UNCHANGED purevars
    \/ on_ui_select_panel_right_change /\ UNCHANGED purevars
    \/ WatchdogEvent /\ UNCHANGED purevars
    \/ FileChange /\ UNCHANGED purevars

Spec == Init /\ [][Next]_vars

\* The application as constructed, with the RandomDataProvider; it stays so
\* while an object is studied on its own.
FrozenApp == AppInit /\ provider = "random"

\* A FactorMap is constructed on any DataFrame and updated.
FmInit ==
    /\ FrozenApp
    /\ fm = NoFactorMapObject
    /\ fdf \in Frames
    /\ pin = NoInput
    /\ pout = NoOutput

FmNext ==
    \/ FactorMapConstruct
    \/ FactorMapUpdateDf

FmSpec == FmInit /\ [][FmNext]_vars

\* The aggregations are computed for any table and any selection.
AggInit ==
    /\ FrozenApp
    /\ fm = NoFactorMapObject
    /\ fdf = NoFrame
    /\ pin \in {i \in AggInputs(MaxAggRows) : ValidInput(i)}
    /\ pout = NoOutput

AggNext == AggCompute

AggSpec == AggInit /\ [][AggNext]_vars

\* A graph layout is computed for any vertex and edge table.
GraphInit ==
    /\ FrozenApp
    /\ fm = NoFactorMapObject
    /\ fdf = NoFrame
    /\ pin \in GraphInputs
    /\ pout = NoOutput

GraphNext == GraphLayout

GraphSpec == GraphInit /\ [][GraphNext]_vars

\* A PCA or UMAP view is constructed and handles reloads and user events.
ReducerInit ==
    /\ FrozenApp
    /\ fm = NoFactorMapObject
    /\ fdf = NoFrame
    /\ \E view \in {"PCA", "UMAP"} : \E table \in ReducerTables :
         pin = ReducerViewNew(view, table)
    /\ pout = ReducerLogNew

ReducerNext ==
    \/ ReducerReloadDf
    \/ ReducerReloadGuarded
    \/ on_ui_multichoice_columns_change
    \/ ui_columns_change
    \/ ui_ncomponents_change
    \/ on_ui_apply_click

ReducerSpec == ReducerInit /\ [][ReducerNext]_vars

\* A HistogramView or a SplomView shows histograms of the vertex table.
HistInit ==
    /\ FrozenApp
    /\ fm = NoFactorMapObject
    /\ fdf = NoFrame
    /\ \E view \in {"Histogram", "SPLOM"} : \E table \in HistTables :
       \E columns \in HistColumnLists :
         /\ pin = HistApp(view, table, columns)
         /\ pout = HistViewNew(view, table, columns)

HistNext ==
    \/ on_cds_selected_change
    \/ on_factor_map_update
    \/ on_ui_select_column_change
    \/ on_multichoice_columns_change
    \/ HistReload

HistSpec == HistInit /\ [][HistNext]_vars

\* A graph view is constructed and handles reloads and layout events.
GraphViewInit ==
    /\ FrozenApp
    /\ fm = NoFactorMapObject
    /\ fdf = NoFrame
    /\ \E edges \in ReloadEdgeTables, has_columns \in BOOLEAN :
         pin = GraphApp(edges, has_columns)
    /\ pout = GraphViewNew

GraphViewNext ==
    \/ GraphViewReload
    \/ GraphViewLayoutEvent

GraphViewSpec == GraphViewInit /\ [][GraphViewNext]_vars

\* The source and target columns of any edge table are detected.
DetectInit ==
    /\ FrozenApp
    /\ fm = NoFactorMapObject
    /\ fdf = NoFrame
    /\ pin \in DetectTables
    /\ pout = NoOutput

DetectSpec == DetectInit /\ [][DetectColumns]_vars

\* A scatter view is reloaded on any table.
ScatterInit ==
    /\ FrozenApp
    /\ fm = NoFactorMapObject
    /\ fdf = NoFrame
    /\ pin \in ScatterInputs
    /\ pout = NoOutput

ScatterSpec == ScatterInit /\ [][ScatterReload]_vars

\* The application after its construction on a table of n rows, nothing
\* selected; the provider's path_vertex_selection is set or None.
SelInit ==
    /\ FrozenApp
    /\ fm = NoFactorMapObject
    /\ fdf = NoFrame
    /\ \E n \in SelRowCounts, path \in BOOLEAN :
         pin = [made |-> TRUE, n |-> n, sel |-> {}, path |-> path]
    /\ pout = [made |-> TRUE, op |-> "construct", handed |-> {},
               result |-> [raised |-> "no", written |-> FALSE,
                           mask |-> <<>>]]

SelNext ==
    \/ SelUserSelect
    \/ SelReload

SelSpec == SelInit /\ [][SelNext]_vars

\* A histogram view after the reload that created it: one plot, of the
\* first column.
ListenerInit ==
    /\ FrozenApp
    /\ fm = NoFactorMapObject
    /\ fdf = NoFrame
    /\ \E columns \in ListenerTables :
         /\ pin = [made |-> TRUE, columns |-> columns]
         /\ pout = [made |-> TRUE, shown |-> columns[1],
                    listeners |-> <<columns[1]>>,
                    raised |-> "no"]

ListenerNext ==
    \/ ListenerReload
    \/ ListenerColumnChange
    \/ ListenerSelectionChange

ListenerSpec == ListenerInit /\ [][ListenerNext]_vars

\* A histogram view that a panel switch has just created.
GuardInit ==
    /\ FrozenApp
    /\ fm = NoFactorMapObject
    /\ fdf = NoFrame
    /\ \E columns \in ListenerTables, panel \in {"left", "right"} :
         pin = [made |-> TRUE, panel |-> panel, columns |-> columns,
                app_is_reloading |-> FALSE, reload_counter |-> 1,
                pc |-> "df", op |-> "switch"]
    /\ pout = [made |-> TRUE, value |-> "None", assigned |-> FALSE,
               handler_builds |-> 0, cds_builds |-> 0]

GuardNext ==
    \/ GuardBeginReload
    \/ GuardBeginSwitch
    \/ GuardReloadDf
    \/ GuardReloadCds
    \/ GuardUserChange

GuardSpec == GuardInit /\ [][GuardNext]_vars

\* A file provider after __init__: a FilesystemDataProvider has no handle,
\* an AmiraDataProvider one for every file its directory holds.
ProviderInit ==
    /\ FrozenApp
    /\ fm = NoFactorMapObject
    /\ fdf = NoFrame
    /\ \E kind \in FileProviders, files \in SUBSET Paths :
         pin = [made |-> TRUE, kind |-> kind,
                handles |-> [path \in Paths |->
                               IF kind = "amira" /\ path \in files
                               THEN FileHandle(NameRole(path), TRUE, <<>>)
                               ELSE NoFileHandle(path \in files, <<>>)],
                df |-> [path \in Paths |-> 0],
                df_edges |-> [path \in Paths |-> 0]]
    /\ pout = [made |-> TRUE, op |-> "__init__", raised |-> FALSE,
               emitted |-> Cardinality({path \in Paths :
                                          Registered(pin.handles[path])}),
               assigned |-> {}]

ProviderNext ==
    \/ add_vertex_csv
    \/ remove_vertex_csv
    \/ add_edge_csv
    \/ remove_edge_csv
    \/ on_modified
    \/ on_deleted
    \/ on_created
    \/ path_change
    \/ ProviderReload

ProviderSpec == ProviderInit /\ [][ProviderNext]_vars

\* ------------------------------------------------------------- properties
SelectionWrites == {"write_vertex_selection", "write_edge_selection"}
ColormapWrites == {"write_vertex_colormap", "write_edge_colormap"}
StepsRun == {steps[i] : i \in DOMAIN steps}

\* C1: a reload() called while is_reloading is true returns at once: the
\* provider, the tables, the FactorMaps, the sinks, the step log and the
\* writeback log are as before the call, and no second execution of reload()
\* is ever in progress.
C1_NestedReloadReturns ==
    [][/\ stack' = <<>>
       /\ (nested' = "reload" /\ nested # "reload")
            => UNCHANGED <<provvars, provlog, ticks, appvars, pc, stack,
                           outcome, steps, wlog, replaced>>]_vars

\* C1 happens: reload() was called inside the running reload().
C1_Witness ==
    /\ pc \in NestedPoints
    /\ is_reloading
    /\ nested = "reload"
    /\ "provider_reload" \in StepsRun

\* C2: when no reload() is running, is_reloading is false, whichever way the
\* last reload() ended.
C2_FlagReleased == pc = "idle" => ~is_reloading

\* C3: after the provider's reload raised inside reload(), the tables, the
\* three FactorMaps, both sinks and the selection are what they were when
\* reload() was called, and reload() ended with the exception.
C3_ProviderFailureKeepsState ==
    pre # NoSnapshot =>
        /\ Snapshot = pre
        /\ \/ pc = "provider"
           \/ pc = "idle" /\ outcome = "raised" /\ presult = "failed"

\* C3 happens: the provider replaced its vertex table and then raised, in an
\* application that holds computed FactorMaps and a selection.
C3_Witness ==
    /\ pc = "idle"
    /\ outcome = "raised"
    /\ pre # NoSnapshot
    /\ pdf.id # df.id
    /\ fmap_color.computed
    /\ vsel # {}

ReloadOrder ==
    <<"provider_reload", "replace_tables", "update_colormap",
      "update_markermap", "update_edge_colormap", "reload_df",
      "push_df_to_cds", "reload_cds", "update_layout", "clear_is_reloading",
      "writebacks">>

\* C4: the statement blocks of a reload() run in the order provider reload,
\* table replacement, the three FactorMaps, reload_df of the views, forced
\* push, reload_cds of the views, layout, clearing of is_reloading,
\* writebacks; when reload_cds has run the sinks hold the tables with every
\* column reload_df wrote.
C4_StepOrder ==
    /\ Len(steps) <= Len(ReloadOrder)
    /\ steps = SubSeq(ReloadOrder, 1, Len(steps))
    /\ "reload_cds" \in StepsRun =>
          /\ cds = df
          /\ cds_edges = df_edges
          /\ "Map" \in {panel_left, panel_right} => "cora:map" \in cds.cols

\* C4 happens: a reload() with a Map view in both panels ran to its end.
C4_Witness ==
    /\ outcome = "done"
    /\ steps = ReloadOrder
    /\ panel_left = "Map"
    /\ panel_right = "Map"

\* C5: no selection writeback is made while is_reloading is true, and a
\* reload() that ran to its end has called write_vertex_selection exactly
\* once, with the vertex sink's current selection, and write_edge_selection
\* exactly once, with the edge sink's current selection.
C5_SelectionWritebackDeferred ==
    /\ \A i \in DOMAIN wlog : wlog[i].op \in SelectionWrites => ~wlog[i].rl
    /\ outcome = "done" =>
          /\ Calls("write_vertex_selection") =
                <<[op |-> "write_vertex_selection", sel |-> vsel,
                   glyph |-> NoFactorMap, rl |-> FALSE]>>
          /\ Calls("write_edge_selection") =
                <<[op |-> "write_edge_selection", sel |-> esel,
                   glyph |-> NoFactorMap, rl |-> FALSE]>>

\* C5 happens: the vertex selection changed inside a reload() that then ran
\* to its end with a non-empty selection.
C5_Witness ==
    /\ outcome = "done"
    /\ nested = "vsel"
    /\ vsel # {}

\* C6: every write_vertex_colormap / write_edge_colormap call is made while
\* is_reloading is false, with the glyph state of the FactorMap computed on
\* the application's current table.
C6_ColormapWritebackAfterClear ==
    \A i \in DOMAIN wlog :
        wlog[i].op \in ColormapWrites =>
            /\ ~wlog[i].rl
            /\ wlog[i].glyph.computed
            /\ wlog[i].glyph.tbl = IF wlog[i].op = "write_vertex_colormap"
                                   THEN df.id ELSE df_edges.id

\* C7: the views' pushes without force inside reload() leave both sinks as
\* they are, and a reload() that ran to its end has replaced the vertex sink
\* once and the edge sink once.
C7_OneBulkReplace ==
    [][/\ (pc = "reload_df" /\ pc' = "push") => UNCHANGED <<cds, cds_edges>>
       /\ (is_reloading' /\ ~("push_df_to_cds" \in StepsRun'))
            => replaced' = <<0, 0>>
       /\ outcome' = "done" => replaced' = <<1, 1>>]_vars

\* C7 happens: a reload() with a Map view, whose reload_df asks for a push,
\* ran to its end and the sink holds the view's column.
C7_Witness ==
    /\ outcome = "done"
    /\ panel_left = "Map"
    /\ "cora:map" \in cds.cols
    /\ replaced = <<1, 1>>

\* C8: a step that changes the vertex selection while is_reloading is false
\* makes exactly one writeback call, write_vertex_selection with the new
\* indices; one that changes the edge indices or the multiline keys makes
\* exactly the call write_edge_selection with the new indices, the keys read
\* as integers.
C8_SelectionWriteback ==
    [][/\ (vsel' # vsel /\ ~is_reloading) =>
             wlog' = <<[op |-> "write_vertex_selection", sel |-> vsel',
                        glyph |-> NoFactorMap, rl |-> FALSE]>>
       /\ (esel' # esel /\ ~is_reloading) =>
             wlog' = <<[op |-> "write_edge_selection", sel |-> esel',
                        glyph |-> NoFactorMap, rl |-> FALSE]>>
       /\ (emsel' # emsel /\ ~is_reloading) =>
             wlog' = <<[op |-> "write_edge_selection",
                        sel |-> {i \in Indices : KeyOf(i) \in emsel'},
                        glyph |-> NoFactorMap, rl |-> FALSE]>>]_vars

\* C8 happens: the multiline keys, one of them of two digits, were selected
\* while no reload was running, and their indices written back.
C8_Witness ==
    /\ ~is_reloading
    /\ pc = "idle"
    /\ <<1, 0>> \in emsel
    /\ Len(wlog) = 1
    /\ wlog[1].op = "write_edge_selection"
    /\ 10 \in wlog[1].sel

\* C9: a step in which a change notification schedules a callback changes
\* nothing of the application and starts no reload; the reload button is
\* enabled only by the event loop running a scheduled callback.
C9_NotificationOnlySchedules ==
    [][/\ ticks' > ticks =>
             /\ UNCHANGED appvars
             /\ pc' = pc \/ pc = "provider"
       /\ (button_disabled /\ ~button_disabled') =>
             /\ pc = "idle"
             /\ ticks' = ticks - 1]_vars

\* C9 happens: a file was modified while reload() was past the provider's
\* reload; the callback waits in the event loop, the button is still disabled.
C9_Witness ==
    /\ IsFilesystem
    /\ pc = "push"
    /\ ticks > 0
    /\ vfile.dirty
    /\ button_disabled

\* C10: the last provider reload() emitted one change notification if it
\* succeeded and none if it failed.
C10_NotifyOncePerSuccess ==
    /\ presult = "ok" => emitted = 1
    /\ presult = "failed" => emitted = 0

\* The FactorMap was updated, on a DataFrame that has its column.
UpdatedOnColumn ==
    /\ fm.made
    /\ fm.status = "updated"
    /\ fdf.has
    /\ fm.column_name = "label"

\* C11: a FactorMap updated on any other table whose label column holds the
\* same set of distinct values has the same ordered factors, the same
\* factor -> id map and the same factor -> glyph map.
C11_FactorStability ==
    UpdatedOnColumn =>
        \A c \in Columns :
            {c[i] : i \in DOMAIN c} = {fdf.label[i] : i \in DOMAIN fdf.label}
            => LET o == update_df(FactorMapNew(fm.palette, fm.mode,
                                               fm.column_name), Frame(c)).fm
               IN /\ o.factors = fm.factors
                  /\ o.id_map = fm.id_map
                  /\ o.glyph_map = fm.glyph_map

\* C11 happens: the column holds a value twice and its values out of order,
\* so other tables with the same distinct values exist.
C11_Witness ==
    /\ UpdatedOnColumn
    /\ Len(fdf.label) >= 3
    /\ fdf.label[1] > fdf.label[2]
    /\ fdf.label[1] = fdf.label[3]

\* C12: with a palette of length k >= 1 the factors are the column's values
\* in ascending order, the i-th of them (from 0) has id i and the glyph
\* palette[i mod k] in CYCLE mode, palette[min(i, k-1)] in REPEAT_LAST mode,
\* and every row holds the glyph and the id of its value.
C12_PaletteWrap ==
    (UpdatedOnColumn /\ fm.palette # <<>>) =>
        LET k == Len(fm.palette)
            fs == fm.factors
        IN /\ {fs[i] : i \in DOMAIN fs}
                 = {fdf.label[r] : r \in DOMAIN fdf.label}
           /\ \A i \in DOMAIN fs :
                 /\ \A j \in DOMAIN fs : i < j => fs[i] < fs[j]
                 /\ fm.id_map[fs[i]] = i - 1
                 /\ fm.glyph_map[fs[i]] =
                       IF fm.mode = "CYCLE"
                       THEN fm.palette[((i - 1) % k) + 1]
                       ELSE fm.palette[(IF i - 1 < k - 1 THEN i - 1
                                        ELSE k - 1) + 1]
           /\ fdf.written
           /\ \A r \in DOMAIN fdf.label :
                 /\ fdf.glyph[r] = fm.glyph_map[fdf.label[r]]
                 /\ fdf.id[r] = fm.id_map[fdf.label[r]]

\* C12 happens: more factors than palette entries in CYCLE mode, with a
\* palette of different glyphs.
C12_Witness ==
    /\ UpdatedOnColumn
    /\ fm.mode = "CYCLE"
    /\ Len(fm.palette) >= 2
    /\ fm.palette[1] # fm.palette[2]
    /\ Len(fm.factors) > Len(fm.palette)

\* C13: updated on a DataFrame of n rows that lacks the FactorMap's column
\* (or with the column name None), the FactorMap has the single factor
\* "None", an id column of n zeros and a glyph column of n times palette[0],
\* and both are written into the DataFrame.
C13_DefaultEncoding ==
    (fm.made /\ fm.status = "updated"
        /\ ~(fdf.has /\ fm.column_name = "label")) =>
        /\ fm.factors = <<"None">>
        /\ fm.id_column = [i \in 1 .. fdf.n |-> 0]
        /\ fm.glyph_column = [i \in 1 .. fdf.n |-> fm.palette[1]]
        /\ fdf.written
        /\ fdf.id = fm.id_column
        /\ fdf.glyph = fm.glyph_column

\* C13 happens: a DataFrame of several rows and the column name None.
C13_Witness ==
    /\ fm.made
    /\ fm.status = "updated"
    /\ fm.column_name = "None"
    /\ fdf.n >= 2
    /\ fdf.written

\* C14: no FactorMap with an empty palette exists, and update_df never ran
\* on one.
C14_EmptyPaletteRejected ==
    fm.made => fm.palette # <<>>

AllRows == 1 .. Len(pin.x)

\* C15: the histogram series, the flower description, the statistics and
\* the written 0/1 mask computed with the empty selection equal those
\* computed with the selection of all rows, and the mask is all ones.
C15_EmptySelectionIsEverything ==
    (pout.made /\ pin.sel \in {{}, AllRows}) =>
        /\ pout = Aggregations(pin, {})
        /\ pout = Aggregations(pin, AllRows)
        /\ pout.mask = [i \in AllRows |-> 1]

\* C15 happens: the aggregations of a table of several rows and values were
\* computed with nothing selected.
C15_Witness ==
    /\ pout.made
    /\ pin.sel = {}
    /\ Len(pin.x) >= 2
    /\ pin.x[1] # pin.x[2]
    /\ pin.nfactors = 2

C17_LayoutComplete ==
    (pout.made /\ pout.written) =>
        /\ Len(pout.x) = pin.n
        /\ Len(pout.y) = pin.n
        /\ Len(pout.raw) = pin.n
        /\ \A r \in 1 .. pin.n :
              IF r - 1 \in GraphNodes(pin.edges)
              THEN pout.raw[r] \in LayoutPoints
              ELSE pout.raw[r] = <<-1, 0>>

\* C17 happens: a layout was written for a graph with an isolated vertex.
C17_Witness ==
    /\ pout.made
    /\ pout.written
    /\ pin.n = 3
    /\ pin.edges = <<<<0, 1>>>>
    /\ pin.layout = "spring"
    /\ pout.raw[3] = <<-1, 0>>

\* No column is selected, or a selected column has a missing value.
NotReducible ==
    \/ pin.value = {}
    \/ \E c \in pin.value : \E r \in DOMAIN pin.df[c] : pin.df[c][r] = "nan"

\* C18: an event after which no column is selected, or a selected column
\* has a missing value in some row, has not invoked the reducer, has
\* written no embedding column, has left the variance series alone and has
\* asked for no sink push.
C18_ReducerGuards ==
    [][NotReducible' =>
          /\ pout'.runs = pout.runs
          /\ pout'.writes = pout.writes
          /\ pout'.variance_updates = pout.variance_updates
          /\ pout'.pushes = pout.pushes
          /\ pin'.variance = pin.variance
          /\ pin'.features \subseteq pin.features]_vars

\* C18 happens: after an embedding was computed, Apply was pressed with a
\* selected column that has a missing value in one of its two rows.
C18_Witness ==
    /\ pout.op = "apply"
    /\ pout.runs = 1
    /\ pin.features # {}
    /\ pin.value # {}
    /\ \E c \in pin.value : pin.df[c] \in {<<"0", "nan">>, <<"nan", "0">>}

\* C19: the reducer is invoked only by the Apply button or by a change of
\* the selected columns, never by Application.reload.
C19_ReducerOnlyOnUserAction ==
    [][pout'.runs # pout.runs => pout'.op \in {"apply", "columns"}]_vars

\* C20: after every event every histogram the view shows holds the bins of
\* the current table, the current selection and the current FactorMap.
C20_NoStaleHistogram ==
    \A c \in pout.shown :
        pout.plots[c] = HistogramOf(pin.table, c, pin.color, pin.sel)

\* C22: in a layout that was written, the divisor of every normalized
\* coordinate is not zero: an axis on which all positions coincide is
\* divided by 1.0 and its coordinates are finite.
C22_ZeroVarianceFinite ==
    (pout.made /\ pout.written) =>
        \A r \in DOMAIN pout.x : pout.x[r].var # 0 /\ pout.y[r].var # 0

\* C21 as stated: a reload invokes the layout algorithm if and only if no
\* graph was built before or the graph of the current edge table is not
\* isomorphic to the graph built before.
C21_LayoutIffGraphChanged ==
    [][pout'.op = "reload" =>
          (pout'.invoked <=>
              \/ ~pout.nx_graph.built
              \/ ~SameShape(pout.nx_graph.graph, DiGraph(pin'.edges)))]_vars

\* C21, amended: a reload invokes the layout algorithm if and only if the
\* view has a source and a target column after the column menus were set and
\* either no graph was built before or the graph of the current edge table
\* cannot be turned into the graph built before by renumbering the vertex
\* rows; without the two columns the graph built before is kept.
C21_LayoutIffColumnsAndGraphChanged ==
    [][pout'.op = "reload" =>
          /\ pout'.invoked <=>
                /\ pout'.columns_set
                /\ \/ ~pout.nx_graph.built
                   \/ ~SameShape(pout.nx_graph.graph, DiGraph(pin'.edges))
          /\ ~pout'.columns_set => pout'.nx_graph = pout.nx_graph]_vars

\* C21 happens: a reload delivered another edge table whose graph is
\* isomorphic to the graph built before, and the layout was not invoked.
C21_Witness ==
    /\ pout.op = "reload"
    /\ pout.columns_set
    /\ ~pout.invoked
    /\ ~pin.v
    /\ pin.edges = <<<<1, 0>>, <<1, 1>>>>

\* C27: after a completed reload the vertex table and sink hold the
\* position columns and the edge table and sink the polyline columns.
C27_GraphColumnsAfterReload ==
    (pout.op = "reload" /\ pout.columns_set) =>
        pin.v /\ pin.cds_v /\ pin.e /\ pin.cds_e

\* C23: the pair detect_source_target_columns returns consists of two
\* integer-valued columns of the edge table.
C23_DetectedColumnsIntegral ==
    (pout.made /\ pout.source # <<>>) =>
        /\ pout.source \in pin.integral
        /\ pout.target \in pin.integral

\* C24: a reload() of a file provider called while a registered file does
\* not exist leaves the provider's vertex table and edge table as they were.
C24_ReloadBlockedUntilReady ==
    [][(pout'.op = "reload" /\ ~is_ready(pin.handles)) =>
          /\ pout'.assigned = {}
          /\ pin'.df = pin.df
          /\ pin'.df_edges = pin.df_edges]_vars

\* C28: the change notification a RandomDataProvider emits from inside its
\* own reload() schedules no callback that would reload again or re-enable
\* the reload button.
C28_OwnNotificationSchedulesNothing ==
    [][(provider = "random" /\ pc = "provider") => ticks' = ticks]_vars

\* C26: ScatterView.reload_df completes without raising, and afterwards x
\* and y are each None or one of the offered options.
C26_ScatterReloadCompletes ==
    pout.made =>
        /\ pout.raised = "no"
        /\ pout.x \in Members(pout.options) \cup {"None"}
        /\ pout.y \in Members(pout.options) \cup {"None"}

\* C29: every index of the selection handed to write_vertex_selection at
\* the end of a reload is smaller than the number of rows of the current
\* table, and the provider builds the mask.
C29_SelectionWithinTable ==
    pout.op = "reload" =>
        /\ \A i \in pout.handed : i < pin.n
        /\ pout.result.raised = "no"

\* C30: the plots that react to a selection change are only the plot the
\* view displays; their number does not grow and each reads a column of
\* the current sink.
C30_OnlyDisplayedPlotsListen ==
    /\ Len(pout.listeners) <= 1
    /\ \A i \in DOMAIN pout.listeners :
          /\ pout.listeners[i] = pout.shown
          /\ pout.listeners[i] \in Members(pin.columns)
    /\ pout.raised = "no"

\* C25: during a reload or a panel switch the change handler of the view
\* builds no plot, whatever reload_df assigned to the widget; the one plot
\* of the reload is built by reload_cds.
C25_HandlersSilentWhileReloading ==
    pin.op \in {"reload", "switch"} =>
        /\ pout.handler_builds = 0
        /\ pout.cds_builds = (IF pin.pc = "idle" THEN 1 ELSE 0)

\* C25 happens: during a panel switch, with the application not reloading,
\* reload_df has assigned a default column to the widget of the new view.
C25_Witness ==
    /\ pin.op = "switch"
    /\ pin.pc = "cds"
    /\ pin.reload_counter = 1
    /\ ~pin.app_is_reloading
    /\ pout.assigned
    /\ pout.handler_builds = 0
====
